---------------------------- MODULE Spec2Model ----------------------------
(***************************************************************************)
(* Decoding layer of the MLBB screenshot extractor                         *)
(* (mlbb_extractor/extractor/mlbb_extractor.py) and its configuration      *)
(* (mlbb_extractor/config.py).                                             *)
(*                                                                         *)
(* Texts are sequences of one-character strings.  A rating is the exact    *)
(* decimal <<m, e>> = m / 10^e.  The floats of the region and profile      *)
(* arithmetic are IEEE-754 doubles, computed bit by bit with               *)
(* round-to-nearest-even.                                                  *)
(***************************************************************************)
EXTENDS Integers, Sequences, FiniteSets, TLC

\* call, ret: the method call under way and its outcome.
\* profiles, active_profile_name: the fields of the ExtractorConfig; profiles
\* is the dict as the sequence of its values in insertion order.
VARIABLES call, ret, profiles, active_profile_name

vars == <<call, ret, profiles, active_profile_name>>

config == <<profiles, active_profile_name>>

\* ret is <<>> until the call returns and <<value>> afterwards.
Pending == <<>>

Returned == Len(ret) = 1

\* Python's None, for the optional K/D/A triple.
None == <<>>

-----------------------------------------------------------------------------
(* Bounds of the explored inputs.                                          *)

MaxRuns == 4

MaxWords == 4

MaxDigits == 10

MaxRatingLen == 5

MaxFragments == 3

MaxDurationLen == 6

-----------------------------------------------------------------------------
(* Python string primitives used by the decoders.                          *)

DigitChars == {"0", "1", "2", "3", "4", "5", "6", "7", "8", "9"}

DigitVal(c) ==
    CASE c = "0" -> 0 [] c = "1" -> 1 [] c = "2" -> 2 [] c = "3" -> 3
      [] c = "4" -> 4 [] c = "5" -> 5 [] c = "6" -> 6 [] c = "7" -> 7
      [] c = "8" -> 8 [] c = "9" -> 9

DigitChar(n) ==
    CASE n = 0 -> "0" [] n = 1 -> "1" [] n = 2 -> "2" [] n = 3 -> "3"
      [] n = 4 -> "4" [] n = 5 -> "5" [] n = 6 -> "6" [] n = 7 -> "7"
      [] n = 8 -> "8" [] n = 9 -> "9"

\* int(s) for a string of decimal digits: leading zeros are dropped.
RECURSIVE int(_)
int(s) ==
    IF Len(s) = 0 THEN 0
    ELSE int(SubSeq(s, 1, Len(s) - 1)) * 10 + DigitVal(s[Len(s)])

\* str(n) for a non-negative integer.
RECURSIVE str(_)
str(n) ==
    IF n < 10 THEN <<DigitChar(n)>>
    ELSE Append(str(n \div 10), DigitChar(n % 10))

\* ''.join(filter(str.isdigit, s))
filter_isdigit(s) == SelectSeq(s, LAMBDA c : c \in DigitChars)

\* s.strip() is non-empty: some character is not whitespace.
strip_nonempty(s) == \E i \in 1..Len(s) : s[i] # " "

\* re.findall(r'\d+', text): the maximal digit runs, left to right.  cur is
\* the run being read.
RECURSIVE findall_from(_, _, _)
findall_from(text, i, cur) ==
    IF i > Len(text) THEN (IF Len(cur) > 0 THEN <<cur>> ELSE <<>>)
    ELSE IF text[i] \in DigitChars
         THEN findall_from(text, i + 1, Append(cur, text[i]))
         ELSE (IF Len(cur) > 0 THEN <<cur>> ELSE <<>>)
              \o findall_from(text, i + 1, <<>>)

findall_digits(text) == findall_from(text, 1, <<>>)

min(a, b) == IF a < b THEN a ELSE b

max(a, b) == IF a > b THEN a ELSE b

abs(a) == IF a < 0 THEN -a ELSE a

-----------------------------------------------------------------------------
(* IEEE-754 double arithmetic (Python float), round to nearest, ties to    *)
(* even.  A positive double is <<m, e>>: m its 53 mantissa bits, most      *)
(* significant first and m[1] = 1, and its value is m * 2^e.  Zero is      *)
(* DZero.  Exponents stay far from the subnormal and overflow ranges.      *)

DZero == <<>>

\* The binary digits of a positive integer, most significant first.
RECURSIVE bits_of(_)
bits_of(n) == IF n = 0 THEN <<>> ELSE Append(bits_of(n \div 2), n % 2)

\* The integer a (short) bit sequence denotes.
RECURSIVE bits_val(_)
bits_val(b) ==
    IF Len(b) = 0 THEN 0
    ELSE 2 * bits_val(SubSeq(b, 1, Len(b) - 1)) + b[Len(b)]

zeros(n) == [i \in 1..n |-> 0]

\* b without its leading zeros.
strip_zeros(b) ==
    IF \A i \in 1..Len(b) : b[i] = 0 THEN <<>>
    ELSE LET p == CHOOSE i \in 1..Len(b) :
                      b[i] = 1 /\ \A j \in 1..(i - 1) : b[j] = 0
         IN  SubSeq(b, p, Len(b))

\* b + 1; one bit longer when b is all ones.
bits_inc(b) ==
    IF \A i \in 1..Len(b) : b[i] = 1 THEN <<1>> \o zeros(Len(b))
    ELSE LET p == CHOOSE i \in 1..Len(b) :
                      b[i] = 0 /\ \A j \in (i + 1)..Len(b) : b[j] = 1
         IN  [i \in 1..Len(b) |-> IF i < p THEN b[i] ELSE IF i = p THEN 1 ELSE 0]

\* a < b for bit sequences of equal length.
bits_lt(a, b) ==
    \E i \in 1..Len(a) : a[i] < b[i] /\ \A j \in 1..(i - 1) : a[j] = b[j]

\* Long bit sequences are computed in limbs of LimbBits bits, most
\* significant first, so that every intermediate value fits a machine integer.
LimbBits == 14
Base == 2 ^ LimbBits

limbs_of(b) ==
    LET n == (Len(b) + LimbBits - 1) \div LimbBits
        p == zeros(n * LimbBits - Len(b)) \o b
    IN  [j \in 1..n |->
            bits_val(SubSeq(p, (j - 1) * LimbBits + 1, j * LimbBits))]

limbs_bits(l) ==
    strip_zeros([i \in 1..(Len(l) * LimbBits) |->
        (l[(i - 1) \div LimbBits + 1]
            \div (2 ^ (LimbBits - 1 - ((i - 1) % LimbBits)))) % 2])

\* l * w + carry for limbs l and integers 0 <= carry, 0 < w < 2^17.
RECURSIVE mul_limbs(_, _, _)
mul_limbs(l, w, carry) ==
    IF Len(l) = 0 THEN <<carry \div Base, carry % Base>>
    ELSE LET v == l[Len(l)] * w + carry
         IN  Append(mul_limbs(SubSeq(l, 1, Len(l) - 1), w, v \div Base),
                    v % Base)

\* <<(rem * Base^Len(l) + l) div d, (the same) mod d>> for 0 <= rem < d < 2^17.
RECURSIVE div_limbs(_, _, _)
div_limbs(l, d, rem) ==
    IF Len(l) = 0 THEN <<<<>>, rem>>
    ELSE LET v == rem * Base + l[1]
             r == div_limbs(Tail(l), d, v % d)
         IN  <<<<v \div d>> \o r[1], r[2]>>

\* a - b - borrow for limbs of equal length with a >= b + borrow.
RECURSIVE sub_limbs(_, _, _)
sub_limbs(a, b, borrow) ==
    IF Len(a) = 0 THEN <<>>
    ELSE LET n == Len(a)
             v == a[n] - b[n] - borrow
         IN  Append(sub_limbs(SubSeq(a, 1, n - 1), SubSeq(b, 1, n - 1),
                              IF v < 0 THEN 1 ELSE 0),
                    IF v < 0 THEN v + Base ELSE v)

\* The double nearest to bits * 2^e (+ a non-zero fraction of the last bit
\* when sticky), ties to the even mantissa; bits starts with 1.
dbl_round(bits, sticky, e) ==
    LET L == Len(bits)
    IN  IF L <= 53 THEN <<bits \o zeros(53 - L), e - (53 - L)>>
        ELSE LET keep  == SubSeq(bits, 1, 53)
                 guard == bits[54]
                 rest  == sticky \/ \E i \in 55..L : bits[i] = 1
                 up    == guard = 1 /\ (rest \/ keep[53] = 1)
                 inc   == bits_inc(keep)
             IN  IF ~up THEN <<keep, e + (L - 53)>>
                 ELSE IF Len(inc) = 54 THEN <<SubSeq(inc, 1, 53), e + (L - 53) + 1>>
                 ELSE <<inc, e + (L - 53)>>

\* float(n * 2^e) for an integer n >= 0: exact.
dbl_of(n, e) == IF n = 0 THEN DZero ELSE dbl_round(bits_of(n), FALSE, e)

\* f / d for a double f and an integer 0 < d < 2^17: the quotient of the
\* mantissa, extended by two limbs below the binary point, rounded.
dbl_div_int(f, d) ==
    IF f = DZero THEN DZero
    ELSE LET r == div_limbs(limbs_of(f[1] \o zeros(2 * LimbBits)), d, 0)
         IN  dbl_round(limbs_bits(r[1]), r[2] # 0, f[2] - 2 * LimbBits)

\* n / d for integers n >= 0 and d > 0 (Python's true division).
dbl_div(n, d) == dbl_div_int(dbl_of(n, 0), d)

\* f * w for a double f and an integer 0 <= w < 2^17.
dbl_mul_int(f, w) ==
    IF f = DZero \/ w = 0 THEN DZero
    ELSE dbl_round(limbs_bits(mul_limbs(limbs_of(f[1]), w, 0)), FALSE, f[2])

\* abs(f - g)
dbl_abs_diff(f, g) ==
    IF f = DZero THEN g
    ELSE IF g = DZero THEN f
    ELSE LET e  == min(f[2], g[2])
             a0 == f[1] \o zeros(f[2] - e)
             b0 == g[1] \o zeros(g[2] - e)
             n  == max(Len(a0), Len(b0))
             a  == zeros(n - Len(a0)) \o a0
             b  == zeros(n - Len(b0)) \o b0
             df == limbs_bits(IF bits_lt(a, b)
                              THEN sub_limbs(limbs_of(b), limbs_of(a), 0)
                              ELSE sub_limbs(limbs_of(a), limbs_of(b), 0))
         IN  IF Len(df) = 0 THEN DZero ELSE dbl_round(df, FALSE, e)

\* f < g for doubles that are zero or positive.
dbl_lt(f, g) ==
    IF g = DZero THEN FALSE
    ELSE IF f = DZero THEN TRUE
    ELSE IF f[2] # g[2] THEN f[2] < g[2]
    ELSE bits_lt(f[1], g[1])

\* int(f): truncation.
dbl_trunc(f) ==
    IF f = DZero THEN 0
    ELSE IF f[2] >= 0 THEN bits_val(f[1] \o zeros(f[2]))
    ELSE IF 53 + f[2] <= 0 THEN 0
    ELSE bits_val(SubSeq(f[1], 1, 53 + f[2]))

-----------------------------------------------------------------------------
(* _parse_kda_all_combinations                                             *)

\* kda_parse with the upper limit of deaths left out of the range filter.
kda_parse_no_d_max(kda_str, k_len, d_len) ==
    LET length == Len(kda_str)
        a_len  == length - k_len - d_len
        k == int(SubSeq(kda_str, 1, k_len))
        d == int(SubSeq(kda_str, k_len + 1, k_len + d_len))
        a == int(SubSeq(kda_str, k_len + d_len + 1, length))
        s1 == IF d < k + a THEN 10 ELSE 0
        s2 == IF k > 0 /\ a > 0
              THEN (IF max(k, a) < 10 * min(k, a) THEN 5 ELSE 0)
                   + (IF max(k, a) < 5 * min(k, a) THEN 3 ELSE 0)
              ELSE 0
        digit_variance == abs(k_len - d_len) + abs(d_len - a_len)
        s3 == max(0, 5 - digit_variance * 2)
        s4 == IF length = 6 /\ k_len = 2 /\ d_len = 2 /\ a_len = 2 THEN 5 ELSE 0
        s5 == IF length = 5 /\ k_len = 2 /\ d_len = 2 /\ a_len = 1 THEN 5 ELSE 0
        s6 == IF d_len = 1 /\ d <= 1 /\ (k >= 10 \/ a >= 10) THEN -5 ELSE 0
        s7 == IF 5 <= d /\ d <= 15 THEN 3 ELSE 0
    IN  IF ~(1 <= a_len /\ a_len <= 3) THEN None
        ELSE IF 0 <= k /\ k <= 50 /\ 0 <= d /\ 0 <= a /\ a <= 50
             THEN <<s1 + s2 + s3 + s4 + s5 + s6 + s7, k, d, a>>
             ELSE None

\* The score the loop body gives the cut (k_len, d_len) of kda_str, or None
\* when the cut is skipped (a_len outside 1..3) or fails the range filter.
kda_parse(kda_str, k_len, d_len) ==
    LET length == Len(kda_str)
        a_len  == length - k_len - d_len
        k == int(SubSeq(kda_str, 1, k_len))
        d == int(SubSeq(kda_str, k_len + 1, k_len + d_len))
        a == int(SubSeq(kda_str, k_len + d_len + 1, length))
        s1 == IF d < k + a THEN 10 ELSE 0
        s2 == IF k > 0 /\ a > 0
              THEN (IF max(k, a) < 10 * min(k, a) THEN 5 ELSE 0)
                   + (IF max(k, a) < 5 * min(k, a) THEN 3 ELSE 0)
              ELSE 0
        digit_variance == abs(k_len - d_len) + abs(d_len - a_len)
        s3 == max(0, 5 - digit_variance * 2)
        s4 == IF length = 6 /\ k_len = 2 /\ d_len = 2 /\ a_len = 2 THEN 5 ELSE 0
        s5 == IF length = 5 /\ k_len = 2 /\ d_len = 2 /\ a_len = 1 THEN 5 ELSE 0
        s6 == IF d_len = 1 /\ d <= 1 /\ (k >= 10 \/ a >= 10) THEN -5 ELSE 0
        s7 == IF 5 <= d /\ d <= 15 THEN 3 ELSE 0
    IN  IF ~(1 <= a_len /\ a_len <= 3) THEN None
        ELSE IF 0 <= k /\ k <= 50 /\ 0 <= d /\ d <= 30 /\ 0 <= a /\ a <= 50
             THEN <<s1 + s2 + s3 + s4 + s5 + s6 + s7, k, d, a>>
             ELSE None

\* The cuts (k_len, d_len) the two nested loops visit, in loop order.
RECURSIVE kda_cuts_from(_, _, _)
kda_cuts_from(length, k_len, d_len) ==
    IF k_len >= min(3, length - 1) THEN <<>>
    ELSE IF d_len >= min(3, length - k_len)
         THEN kda_cuts_from(length, k_len + 1, 1)
         ELSE <<(<<k_len, d_len>>)>> \o kda_cuts_from(length, k_len, d_len + 1)

kda_cuts(length) == kda_cuts_from(length, 1, 1)

\* valid_parses as the loops leave it.
valid_parses(kda_str) ==
    LET cuts == kda_cuts(Len(kda_str))
        all  == [i \in 1..Len(cuts) |-> kda_parse(kda_str, cuts[i][1], cuts[i][2])]
    IN  SelectSeq(all, LAMBDA p : p # None)

\* Python's tuple order: t > u.
tuple_gt(t, u) ==
    \E i \in 1..4 : /\ t[i] > u[i]
                    /\ \A j \in 1..(i - 1) : t[j] = u[j]

\* valid_parses.sort(reverse=True)[0]: the greatest tuple.
sort_reverse_first(parses) ==
    CHOOSE i \in 1..Len(parses) :
        \A j \in 1..Len(parses) : ~tuple_gt(parses[j], parses[i])

_parse_kda_all_combinations(kda_str) ==
    IF Len(kda_str) < 3 THEN None
    ELSE LET parses == valid_parses(kda_str)
         IN  IF Len(parses) > 0
             THEN LET best == parses[sort_reverse_first(parses)]
                  IN  <<best[2], best[3], best[4]>>
             ELSE None

-----------------------------------------------------------------------------
(* _parse_concatenated_stats_smart                                         *)

\* smart_step with deaths and assists swapped in the stored result.
smart_step_swapped(digits, gold_len, best) ==
    IF Len(digits) < gold_len + 3 THEN best
    ELSE LET gold_str == SubSeq(digits, Len(digits) - gold_len + 1, Len(digits))
             kda_str  == SubSeq(digits, 1, Len(digits) - gold_len)
             gold     == int(gold_str)
             kda      == _parse_kda_all_combinations(kda_str)
             score    == IF 8000 <= gold /\ gold <= 30000 THEN 10 ELSE 5
         IN  IF ~(3000 <= gold /\ gold <= 40000) THEN best
             ELSE IF kda # None /\ score > best[2]
                  THEN <<(<<kda[1], kda[3], kda[2], gold>>), score>>
                  ELSE best

\* smart_step where a later candidate of equal score replaces the best one.
smart_step_ge(digits, gold_len, best) ==
    IF Len(digits) < gold_len + 3 THEN best
    ELSE LET gold_str == SubSeq(digits, Len(digits) - gold_len + 1, Len(digits))
             kda_str  == SubSeq(digits, 1, Len(digits) - gold_len)
             gold     == int(gold_str)
             kda      == _parse_kda_all_combinations(kda_str)
             score    == IF 8000 <= gold /\ gold <= 30000 THEN 10 ELSE 5
         IN  IF ~(3000 <= gold /\ gold <= 40000) THEN best
             ELSE IF kda # None /\ score >= best[2]
                  THEN <<(<<kda[1], kda[2], kda[3], gold>>), score>>
                  ELSE best

\* One pass of the loop over gold_len: the (best_result, best_score) pair
\* after the pass, given the pair before it.
smart_step(digits, gold_len, best) ==
    IF Len(digits) < gold_len + 3 THEN best
    ELSE LET gold_str == SubSeq(digits, Len(digits) - gold_len + 1, Len(digits))
             kda_str  == SubSeq(digits, 1, Len(digits) - gold_len)
             gold     == int(gold_str)
             kda      == _parse_kda_all_combinations(kda_str)
             score    == IF 8000 <= gold /\ gold <= 30000 THEN 10 ELSE 5
         IN  IF ~(3000 <= gold /\ gold <= 40000) THEN best
             ELSE IF kda # None /\ score > best[2]
                  THEN <<(<<kda[1], kda[2], kda[3], gold>>), score>>
                  ELSE best

_parse_concatenated_stats_smart(digits) ==
    IF Len(digits) < 7 THEN <<0, 0, 0, 0>>
    ELSE smart_step(digits, 4, smart_step(digits, 5, <<(<<0, 0, 0, 0>>), -1>>))[1]

-----------------------------------------------------------------------------
(* extract_player_stats.  text1 and text2 are what the OCR engine returned *)
(* (stripped) for the two renderings of the stats region, words is the     *)
(* data['text'] list of image_to_data.                                     *)

first_four(numbers) ==
    <<int(numbers[1]), int(numbers[2]), int(numbers[3]), int(numbers[4])>>

\* word_numbers: one integer per non-blank word that holds a digit.
word_numbers_of(words) ==
    LET kept == SelectSeq(words, LAMBDA w : strip_nonempty(w)
                                            /\ Len(filter_isdigit(w)) > 0)
    IN  [i \in 1..Len(kept) |-> int(filter_isdigit(kept[i]))]

\* The body of "for split_at in [1, 2]" for one split_at: the tuple it
\* returns, or None when it does not return.
split_try(word_numbers, split_at) ==
    LET first == str(word_numbers[1])
        k == int(SubSeq(first, 1, split_at))
        d == int(SubSeq(first, split_at + 1, Len(first)))
        a == word_numbers[2]
        gold == word_numbers[3]
    IN  IF split_at < Len(first)
           /\ 0 <= k /\ k <= 50 /\ 0 <= d /\ d <= 30 /\ 0 <= a /\ a <= 50
           /\ gold >= 1000
        THEN <<k, d, a, gold>>
        ELSE None

\* Strategy 5 and the final fallback.
three_token_repair(word_numbers) ==
    IF Len(word_numbers) = 3 /\ Len(str(word_numbers[1])) >= 2
    THEN IF split_try(word_numbers, 1) # None THEN split_try(word_numbers, 1)
         ELSE IF split_try(word_numbers, 2) # None THEN split_try(word_numbers, 2)
         ELSE <<0, 0, 0, 0>>
    ELSE <<0, 0, 0, 0>>

extract_player_stats(text1, text2, words) ==
    LET numbers1     == findall_digits(text1)
        numbers2     == findall_digits(text2)
        word_numbers == word_numbers_of(words)
        best_text    == IF Len(text1) > 0 THEN text1 ELSE text2
        all_digits   == filter_isdigit(best_text)
    IN  IF Len(numbers1) >= 4 THEN first_four(numbers1)
        ELSE IF Len(numbers2) >= 4 THEN first_four(numbers2)
        ELSE IF Len(word_numbers) >= 4
             THEN <<word_numbers[1], word_numbers[2],
                    word_numbers[3], word_numbers[4]>>
        ELSE IF Len(all_digits) >= 7
             THEN _parse_concatenated_stats_smart(all_digits)
        ELSE three_token_repair(word_numbers)

-----------------------------------------------------------------------------
(* _parse_result                                                           *)

\* str.upper() on one character.
upper_char(c) ==
    CASE c = "a" -> "A" [] c = "b" -> "B" [] c = "c" -> "C" [] c = "d" -> "D"
      [] c = "e" -> "E" [] c = "f" -> "F" [] c = "g" -> "G" [] c = "h" -> "H"
      [] c = "i" -> "I" [] c = "j" -> "J" [] c = "k" -> "K" [] c = "l" -> "L"
      [] c = "m" -> "M" [] c = "n" -> "N" [] c = "o" -> "O" [] c = "p" -> "P"
      [] c = "q" -> "Q" [] c = "r" -> "R" [] c = "s" -> "S" [] c = "t" -> "T"
      [] c = "u" -> "U" [] c = "v" -> "V" [] c = "w" -> "W" [] c = "x" -> "X"
      [] c = "y" -> "Y" [] c = "z" -> "Z" [] OTHER -> c

upper(text) == [i \in 1..Len(text) |-> upper_char(text[i])]

\* Python's "sub in text".
contains(text, sub) ==
    \E i \in 0..(Len(text) - Len(sub)) :
        \A j \in 1..Len(sub) : text[i + j] = sub[j]

KwVICTORY == <<"V", "I", "C", "T", "O", "R", "Y">>

KwVICTOR == <<"V", "I", "C", "T", "O", "R">>

KwWIN == <<"W", "I", "N">>

KwDEFEAT == <<"D", "E", "F", "E", "A", "T">>

KwLOSE == <<"L", "O", "S", "E">>

KwLOSS == <<"L", "O", "S", "S">>

\* _parse_result with the DEFEAT keywords tested before the VICTORY ones.
_parse_result_defeat_first(text) ==
    LET text_upper == upper(text)
    IN  IF contains(text_upper, KwDEFEAT) \/ contains(text_upper, KwLOSE)
           \/ contains(text_upper, KwLOSS)
        THEN "DEFEAT"
        ELSE IF contains(text_upper, KwVICTORY) \/ contains(text_upper, KwVICTOR)
                \/ contains(text_upper, KwWIN)
        THEN "VICTORY"
        ELSE "UNKNOWN"

_parse_result(text) ==
    LET text_upper == upper(text)
    IN  IF contains(text_upper, KwVICTORY) \/ contains(text_upper, KwVICTOR)
           \/ contains(text_upper, KwWIN)
        THEN "VICTORY"
        ELSE IF contains(text_upper, KwDEFEAT) \/ contains(text_upper, KwLOSE)
                \/ contains(text_upper, KwLOSS)
        THEN "DEFEAT"
        ELSE "UNKNOWN"

-----------------------------------------------------------------------------
(* _parse_rating.  A float is the exact decimal <<m, e>> = m / 10^e with no *)
(* trailing zero in the fraction.                                          *)

RECURSIVE pow10(_)
pow10(e) == IF e = 0 THEN 1 ELSE 10 * pow10(e - 1)

RECURSIVE normalize(_, _)
normalize(m, e) ==
    IF e > 0 /\ m % 10 = 0 THEN normalize(m \div 10, e - 1) ELSE <<m, e>>

\* float(f"{integer_part}.{decimal_part}")
float_of(integer_part, decimal_part) ==
    normalize(int(integer_part \o decimal_part), Len(decimal_part))

\* 3.0 <= value <= 20.0
in_range(value) ==
    /\ 3 * pow10(value[2]) <= value[1]
    /\ value[1] <= 20 * pow10(value[2])

\* s.split('.')
RECURSIVE split_dot_from(_, _, _)
split_dot_from(s, i, cur) ==
    IF i > Len(s) THEN <<cur>>
    ELSE IF s[i] = "."
         THEN <<cur>> \o split_dot_from(s, i + 1, <<>>)
         ELSE split_dot_from(s, i + 1, Append(cur, s[i]))

split_dot(s) == split_dot_from(s, 1, <<>>)

\* dot_strategy that keeps every fractional digit.
dot_strategy_untruncated(text) ==
    LET clean_text == SelectSeq(text, LAMBDA c : c \in DigitChars \/ c = ".")
        parts      == split_dot(clean_text)
        value      == IF Len(parts[2]) > 0
                      THEN float_of(parts[1], parts[2])
                      ELSE float_of(parts[1], <<"0">>)
    IN  IF contains(text, <<".">>) /\ Len(parts) = 2 /\ in_range(value)
        THEN value
        ELSE None

\* "Estrategia 1": the value it returns, or None when it does not return.
dot_strategy(text) ==
    LET clean_text == SelectSeq(text, LAMBDA c : c \in DigitChars \/ c = ".")
        parts      == split_dot(clean_text)
        value      == IF Len(parts[2]) > 0
                      THEN float_of(parts[1], <<parts[2][1]>>)
                      ELSE float_of(parts[1], <<"0">>)
    IN  IF contains(text, <<".">>) /\ Len(parts) = 2 /\ in_range(value)
        THEN value
        ELSE None

\* The first in-range value of a list of candidates, or default.
RECURSIVE first_in_range(_, _)
first_in_range(candidates, default) ==
    IF Len(candidates) = 0 THEN default
    ELSE IF in_range(candidates[1]) THEN candidates[1]
    ELSE first_in_range(Tail(candidates), default)

\* four_plus_candidates with the last-two and the middle-two tries swapped.
four_plus_candidates_last_first(digits) ==
    LET n == Len(digits)
    IN  << float_of(<<digits[n - 1]>>, <<digits[n]>>),
           float_of(<<digits[2]>>, <<digits[3]>>),
           float_of(<<digits[n - 2], digits[n - 1]>>, <<digits[n]>>),
           float_of(<<digits[1]>>, <<digits[2]>>),
           float_of(<<digits[1], digits[2]>>, <<digits[3]>>) >>

\* The candidates of the 4+ digits branch, in the order they are tried.
four_plus_candidates(digits) ==
    LET n == Len(digits)
    IN  << float_of(<<digits[2]>>, <<digits[3]>>),
           float_of(<<digits[n - 1]>>, <<digits[n]>>),
           float_of(<<digits[n - 2], digits[n - 1]>>, <<digits[n]>>),
           float_of(<<digits[1]>>, <<digits[2]>>),
           float_of(<<digits[1], digits[2]>>, <<digits[3]>>) >>

\* digits_strategy whose 3-digit branch has no second try.
digits_strategy_no_retry(digits, default) ==
    LET n == Len(digits)
        value ==
            IF n = 1 THEN float_of(digits, <<"0">>)
            ELSE IF n = 2 THEN float_of(<<digits[1]>>, <<digits[2]>>)
            ELSE IF n = 3
                 THEN float_of(<<digits[1], digits[2]>>, <<digits[3]>>)
            ELSE first_in_range(four_plus_candidates(digits), default)
    IN  IF in_range(value) THEN value ELSE default

\* "Estrategia 2" and the final range validation.
digits_strategy(digits, default) ==
    LET n == Len(digits)
        value ==
            IF n = 1 THEN float_of(digits, <<"0">>)
            ELSE IF n = 2 THEN float_of(<<digits[1]>>, <<digits[2]>>)
            ELSE IF n = 3
                 THEN LET first == float_of(<<digits[1], digits[2]>>, <<digits[3]>>)
                      IN  IF ~in_range(first)
                          THEN float_of(<<digits[1]>>, <<digits[2]>>)
                          ELSE first
            ELSE first_in_range(four_plus_candidates(digits), default)
    IN  IF in_range(value) THEN value ELSE default

\* _parse_rating that applies the digit rules only to text without a
\* decimal point.
_parse_rating_dot_only(text, default) ==
    IF Len(text) = 0 THEN default
    ELSE LET digits == filter_isdigit(text)
         IN  IF Len(digits) = 0 THEN default
             ELSE IF dot_strategy(text) # None THEN dot_strategy(text)
             ELSE IF contains(text, <<".">>) THEN default
             ELSE digits_strategy(digits, default)

_parse_rating(text, default) ==
    IF Len(text) = 0 THEN default
    ELSE LET digits == filter_isdigit(text)
         IN  IF Len(digits) = 0 THEN default
             ELSE IF dot_strategy(text) # None THEN dot_strategy(text)
             ELSE digits_strategy(digits, default)

-----------------------------------------------------------------------------
(* _parse_duration                                                         *)

is_digit_at(text, i) == i <= Len(text) /\ text[i] \in DigitChars

\* re.match of (\d{1,2}):(\d{2}) at position i: the two groups, or None.
\* The two-digit minute is tried first.
match_duration_at(text, i) ==
    IF /\ is_digit_at(text, i) /\ is_digit_at(text, i + 1)
       /\ i + 2 <= Len(text) /\ text[i + 2] = ":"
       /\ is_digit_at(text, i + 3) /\ is_digit_at(text, i + 4)
    THEN <<SubSeq(text, i, i + 1), SubSeq(text, i + 3, i + 4)>>
    ELSE IF /\ is_digit_at(text, i)
            /\ i + 1 <= Len(text) /\ text[i + 1] = ":"
            /\ is_digit_at(text, i + 2) /\ is_digit_at(text, i + 3)
    THEN <<SubSeq(text, i, i), SubSeq(text, i + 2, i + 3)>>
    ELSE None

\* re.search: the match at the leftmost position that has one.
RECURSIVE search_duration_from(_, _)
search_duration_from(text, i) ==
    IF i > Len(text) THEN None
    ELSE IF match_duration_at(text, i) # None THEN match_duration_at(text, i)
    ELSE search_duration_from(text, i + 1)

\* s.zfill(width) for a string of digits.
RECURSIVE zfill(_, _)
zfill(s, width) == IF Len(s) >= width THEN s ELSE zfill(<<"0">> \o s, width)

\* _parse_duration without the zfill of the second run.
_parse_duration_no_zfill(text) ==
    LET match   == search_duration_from(text, 1)
        numbers == findall_digits(text)
    IN  IF match # None THEN match[1] \o <<":">> \o match[2]
        ELSE IF Len(numbers) >= 2
             THEN numbers[1] \o <<":">> \o numbers[2]
        ELSE <<"0", "0", ":", "0", "0">>

_parse_duration(text) ==
    LET match   == search_duration_from(text, 1)
        numbers == findall_digits(text)
    IN  IF match # None THEN match[1] \o <<":">> \o match[2]
        ELSE IF Len(numbers) >= 2
             THEN numbers[1] \o <<":">> \o zfill(numbers[2], 2)
        ELSE <<"0", "0", ":", "0", "0">>

-----------------------------------------------------------------------------
(* ExtractorConfig: the registry of resolution profiles.  A profile is     *)
(* [name, reference_width, reference_height, players], players the list of *)
(* its player rows; a method's outcome is [return |-> value] or            *)
(* [raise |-> exception], the value a string: "None" for None.             *)

Return(value) == [return |-> value]

Raise(exception) == [raise |-> exception]

PlayerRows(n) == [i \in 1..n |-> i]

DEFAULT_PROFILE ==
    [name |-> "default_2400x1080", reference_width |-> 2400,
     reference_height |-> 1080, players |-> PlayerRows(5)]

\* ExtractorConfig() without a configuration file.
ConfigInit ==
    /\ profiles = <<DEFAULT_PROFILE>>
    /\ active_profile_name = DEFAULT_PROFILE.name

\* self.profiles.keys(), and name in self.profiles
keys(profs) == {profs[i].name : i \in 1..Len(profs)}

index_of(profs, name) == CHOOSE i \in 1..Len(profs) : profs[i].name = name

\* self.profiles[profile.name] = profile: a registered name keeps its place
\* in the order, a new one goes last.
dict_set(profs, profile) ==
    IF profile.name \in keys(profs)
    THEN [profs EXCEPT ![index_of(profs, profile.name)] = profile]
    ELSE Append(profs, profile)

\* del self.profiles[name], for a registered name
dict_del(profs, name) ==
    LET k == index_of(profs, name)
    IN  SubSeq(profs, 1, k - 1) \o SubSeq(profs, k + 1, Len(profs))

\* Each method below gives <<outcome, profiles, active_profile_name>>.

set_active_profile(profs, active, profile_name) ==
    IF profile_name \notin keys(profs)
    THEN <<Raise("KeyError"), profs, active>>
    ELSE <<Return("None"), profs, profile_name>>

add_profile(profs, active, profile) ==
    <<Return("None"), dict_set(profs, profile), active>>

\* remove_profile without the test for the active profile.
remove_profile_active_unchecked(profs, active, profile_name) ==
    IF profile_name = DEFAULT_PROFILE.name
    THEN <<Raise("ValueError"), profs, active>>
    ELSE IF profile_name \notin keys(profs)
    THEN <<Raise("KeyError"), profs, active>>
    ELSE <<Return("None"), dict_del(profs, profile_name), active>>

remove_profile(profs, active, profile_name) ==
    IF profile_name = DEFAULT_PROFILE.name
    THEN <<Raise("ValueError"), profs, active>>
    ELSE IF profile_name = active
    THEN <<Raise("ValueError"), profs, active>>
    ELSE IF profile_name \notin keys(profs)
    THEN <<Raise("KeyError"), profs, active>>
    ELSE <<Return("None"), dict_del(profs, profile_name), active>>

\* ResolutionProfile.from_dict: a missing key is a KeyError.
from_dict(data) ==
    IF {"name", "reference_width", "reference_height", "players"}
           \subseteq DOMAIN data
    THEN Return([name |-> data.name,
                 reference_width |-> data.reference_width,
                 reference_height |-> data.reference_height,
                 players |-> data.players])
    ELSE Raise("KeyError")

\* The loop over data["profiles"] from entry i on: <<outcome, profiles>>.
RECURSIVE load_profiles(_, _, _)
load_profiles(profs, profile_datas, i) ==
    IF i > Len(profile_datas) THEN <<Return("None"), profs>>
    ELSE LET profile == from_dict(profile_datas[i])
         IN  IF "raise" \in DOMAIN profile THEN <<profile, profs>>
             ELSE load_profiles(dict_set(profs, profile.return),
                                profile_datas, i + 1)

\* load_from_file that takes the file's active_profile as it is.
load_from_file_unchecked(profs, active, exists, data) ==
    IF ~exists THEN <<Raise("FileNotFoundError"), profs, active>>
    ELSE LET loaded == IF "profiles" \in DOMAIN data
                       THEN load_profiles(profs, data.profiles, 1)
                       ELSE <<Return("None"), profs>>
         IN  IF "raise" \in DOMAIN loaded[1] THEN <<loaded[1], loaded[2], active>>
             ELSE IF "active_profile" \in DOMAIN data
             THEN <<Return("None"), loaded[2], data.active_profile>>
             ELSE <<Return("None"), loaded[2], active>>

\* exists: whether config_path names a file; data: its JSON object.
load_from_file(profs, active, exists, data) ==
    IF ~exists THEN <<Raise("FileNotFoundError"), profs, active>>
    ELSE LET loaded == IF "profiles" \in DOMAIN data
                       THEN load_profiles(profs, data.profiles, 1)
                       ELSE <<Return("None"), profs>>
         IN  IF "raise" \in DOMAIN loaded[1] THEN <<loaded[1], loaded[2], active>>
             ELSE IF "active_profile" \in DOMAIN data
                     /\ data.active_profile \in keys(loaded[2])
             THEN <<Return("None"), loaded[2], data.active_profile>>
             ELSE <<Return("None"), loaded[2], active>>

\* float('inf')
DInf == <<"inf">>

\* The loop of auto_select_profile from profile i on: the outcome.
RECURSIVE auto_select_loop(_, _, _, _, _)
auto_select_loop(profs, image_ratio, i, best_profile, best_diff) ==
    IF i > Len(profs) THEN Return(best_profile)
    ELSE IF profs[i].reference_height = 0 THEN Raise("ZeroDivisionError")
    ELSE LET profile_ratio == dbl_div(profs[i].reference_width,
                                      profs[i].reference_height)
             diff == dbl_abs_diff(image_ratio, profile_ratio)
         IN  IF best_diff = DInf \/ dbl_lt(diff, best_diff)
             THEN auto_select_loop(profs, image_ratio, i + 1,
                                   profs[i].name, diff)
             ELSE auto_select_loop(profs, image_ratio, i + 1,
                                   best_profile, best_diff)

\* auto_select_profile that keeps a profile chosen with set_active_profile:
\* it selects only while the default profile is the active one.
auto_select_profile_explicit_kept(profs, active, image_width, image_height) ==
    IF image_height = 0 THEN <<Raise("ZeroDivisionError"), profs, active>>
    ELSE LET best == auto_select_loop(profs, dbl_div(image_width, image_height),
                                      1, DEFAULT_PROFILE.name, DInf)
         IN  IF "raise" \in DOMAIN best THEN <<best, profs, active>>
             ELSE IF active # DEFAULT_PROFILE.name
                  THEN <<Return(active), profs, active>>
             ELSE <<best, profs, best.return>>

auto_select_profile(profs, active, image_width, image_height) ==
    IF image_height = 0 THEN <<Raise("ZeroDivisionError"), profs, active>>
    ELSE LET best == auto_select_loop(profs, dbl_div(image_width, image_height),
                                      1, DEFAULT_PROFILE.name, DInf)
         IN  IF "raise" \in DOMAIN best THEN <<best, profs, active>>
             ELSE <<best, profs, best.return>>

-----------------------------------------------------------------------------
(* Inputs.                                                                 *)

\* All sequences over S of length at most n.
SeqsUpTo(S, n) == UNION {[1..k -> S] : k \in 0..n}

\* " ".join(toks)
RECURSIVE join_space(_)
join_space(toks) ==
    IF Len(toks) = 0 THEN <<>>
    ELSE IF Len(toks) = 1 THEN toks[1]
    ELSE toks[1] \o <<" ">> \o join_space(Tail(toks))

\* The digit runs an OCR text of the stats block is made of.
StatTokens == {<<"1", "2">>, <<"1", "2", "3", "4", "5">>}

\* OCR texts of the stats block: up to MaxRuns runs separated by blanks.
StatTexts == {join_space(toks) : toks \in SeqsUpTo(StatTokens, MaxRuns)}

\* Word lists of image_to_data: runs, and a word without any digit.
StatWords == SeqsUpTo(StatTokens \cup {<<"x">>}, MaxWords)

\* Digit strings handed to Smart-Split.
SmartDigits == {"0", "3", "8"}

SmartStrings == SeqsUpTo(SmartDigits, MaxDigits)
                    \cup {<<"5", "3", "1", "2", "1", "2", "3", "4", "5">>}

\* OCR texts of the rating region: every text over RatingChars, and the
\* documented examples.
RatingChars == {"0", "1", "2", "7", ".", "a"}

RatingLiterals ==
    { <<"7", ".", "8">>,
      <<"7", ".", "8", "7">>,
      <<"7", "8">>,
      <<"1", "1", "5">>,
      <<"6", "1">>,
      <<"a", "b", "c">>,
      <<"7", "5", ".", "7">>,
      <<"5", "6", "1", "7">> }

RatingTexts == SeqsUpTo(RatingChars, MaxRatingLen) \cup RatingLiterals

\* Caller defaults: 0.0 (the one extract_player_ratio passes) and -1.0.
RatingDefaults == {<<0, 0>>, <<-1, 0>>}

\* OCR texts of the result banner: up to MaxFragments fragments in a row.
ResultFragments ==
    { <<"V", "I", "C", "T", "O", "R">>,
      <<"Y">>,
      <<"W">>,
      <<"I", "N">>,
      <<"D", "E", "F", "E", "A", "T">>,
      <<"L", "O", "S">>,
      <<"E">>,
      <<"S">>,
      <<"w", "i", "n">>,
      <<"D", "e", "f", "e", "a", "t">>,
      <<"Y", "0", "U", " ">>,
      <<"x", "y", "z">>,
      <<"l", "o", "s", "e">>,
      <<"v", "I", "c", "T", "o", "R", "y">> }

RECURSIVE concat(_)
concat(parts) == IF Len(parts) = 0 THEN <<>> ELSE parts[1] \o concat(Tail(parts))

ResultTexts == {concat(parts) : parts \in SeqsUpTo(ResultFragments, MaxFragments)}

\* OCR texts of the duration region.
DurationChars == {"1", "4", ":", " ", "g"}

DurationLiterals ==
    { <<"1", "8", ":", "4", "5">>,
      <<"1", "8", " ", "4", "5">>,
      <<"g", "a", "r", "b", "a", "g", "e">>,
      <<"1", "2", "3", ":", "4", "5", "6">> }

DurationTexts == SeqsUpTo(DurationChars, MaxDurationLen) \cup DurationLiterals

-----------------------------------------------------------------------------
(* Specification of extract_player_stats.                                  *)

InitStats ==
    /\ call \in [fn : {"extract_player_stats"}, text1 : StatTexts,
                  text2 : StatTexts, words : StatWords]
    /\ ret = Pending
    /\ ConfigInit

ExtractPlayerStats ==
    /\ call.fn = "extract_player_stats"
    /\ ret = Pending
    /\ ret' = <<extract_player_stats(call.text1, call.text2, call.words)>>
    /\ UNCHANGED <<call, config>>

SpecStats == InitStats /\ [][ExtractPlayerStats]_vars

(* Specification of _parse_concatenated_stats_smart.                       *)

InitSmart ==
    /\ call \in [fn : {"_parse_concatenated_stats_smart"}, digits : SmartStrings]
    /\ ret = Pending
    /\ ConfigInit

ParseConcatenatedStatsSmart ==
    /\ call.fn = "_parse_concatenated_stats_smart"
    /\ ret = Pending
    /\ ret' = <<_parse_concatenated_stats_smart(call.digits)>>
    /\ UNCHANGED <<call, config>>

SpecSmart == InitSmart /\ [][ParseConcatenatedStatsSmart]_vars

(* Specification of _parse_rating.                                         *)

InitRating ==
    /\ call \in [fn : {"_parse_rating"}, text : RatingTexts,
                 default : RatingDefaults]
    /\ ret = Pending
    /\ ConfigInit

ParseRating ==
    /\ call.fn = "_parse_rating"
    /\ ret = Pending
    /\ ret' = <<_parse_rating(call.text, call.default)>>
    /\ UNCHANGED <<call, config>>

SpecRating == InitRating /\ [][ParseRating]_vars

(* Specification of _parse_result.                                         *)

InitResult ==
    /\ call \in [fn : {"_parse_result"}, text : ResultTexts]
    /\ ret = Pending
    /\ ConfigInit

ParseResult ==
    /\ call.fn = "_parse_result"
    /\ ret = Pending
    /\ ret' = <<_parse_result(call.text)>>
    /\ UNCHANGED <<call, config>>

SpecResult == InitResult /\ [][ParseResult]_vars

(* Specification of _parse_duration.                                       *)

InitDuration ==
    /\ call \in [fn : {"_parse_duration"}, text : DurationTexts]
    /\ ret = Pending
    /\ ConfigInit

ParseDuration ==
    /\ call.fn = "_parse_duration"
    /\ ret = Pending
    /\ ret' = <<_parse_duration(call.text)>>
    /\ UNCHANGED <<call, config>>

SpecDuration == InitDuration /\ [][ParseDuration]_vars

-----------------------------------------------------------------------------
(* Claims about extract_player_stats and Smart-Split.                      *)

Zero == <<0, 0, 0, 0>>

\* What the cascade returns when a strategy that does not succeed always
\* hands over to the next one.
cascade_first_success(text1, text2, words) ==
    LET numbers1     == findall_digits(text1)
        numbers2     == findall_digits(text2)
        word_numbers == word_numbers_of(words)
        best_text    == IF Len(text1) > 0 THEN text1 ELSE text2
        all_digits   == filter_isdigit(best_text)
        smart        == _parse_concatenated_stats_smart(all_digits)
    IN  IF Len(numbers1) >= 4 THEN first_four(numbers1)
        ELSE IF Len(numbers2) >= 4 THEN first_four(numbers2)
        ELSE IF Len(word_numbers) >= 4
             THEN <<word_numbers[1], word_numbers[2],
                    word_numbers[3], word_numbers[4]>>
        ELSE IF Len(all_digits) >= 7 /\ smart # Zero THEN smart
        ELSE three_token_repair(word_numbers)

\* C1: extract_player_stats returns the result of the first strategy, in the
\* order 1..6, that succeeds; Smart-Split finding no decomposition passes
\* control to the three-token repair, so (0,0,0,0) is returned only when
\* strategies 1-5 all fail.
C1_FirstSuccessWins ==
    Returned =>
        ret[1] = cascade_first_success(call.text1, call.text2, call.words)

\* The last n characters and what precedes them.
last_chars(s, n) == SubSeq(s, Len(s) - n + 1, Len(s))

before_last(s, n) == SubSeq(s, 1, Len(s) - n)

\* r is a decomposition of digits with a gold of gold_len digits: three
\* consecutive non-empty pieces cover the prefix, all four values in range.
is_decomposition(r, digits, gold_len) ==
    /\ Len(digits) >= gold_len
    /\ r[4] = int(last_chars(digits, gold_len))
    /\ 3000 <= r[4] /\ r[4] <= 40000
    /\ 0 <= r[1] /\ r[1] <= 50
    /\ 0 <= r[2] /\ r[2] <= 30
    /\ 0 <= r[3] /\ r[3] <= 50
    /\ LET p == before_last(digits, gold_len)
       IN  \E i \in 1..Len(p) : \E j \in (i + 1)..(Len(p) - 1) :
               /\ r[1] = int(SubSeq(p, 1, i))
               /\ r[2] = int(SubSeq(p, i + 1, j))
               /\ r[3] = int(SubSeq(p, j + 1, Len(p)))

\* C2: Smart-Split returns (0,0,0,0) or an in-range (K,D,A,G) where G is the
\* value of the last 5 or 4 digits and K, D, A are three consecutive
\* non-empty pieces covering the rest; fewer than 7 digits give (0,0,0,0).
C2_SmartSplitInRange ==
    Returned =>
        /\ \/ ret[1] = Zero
           \/ is_decomposition(ret[1], call.digits, 5)
           \/ is_decomposition(ret[1], call.digits, 4)
        /\ Len(call.digits) < 7 => ret[1] = Zero

C2_Witness ==
    /\ Returned
    /\ Len(call.digits) = 9
    /\ ret[1] # Zero
    /\ is_decomposition(ret[1], call.digits, 4)
    /\ ~is_decomposition(ret[1], call.digits, 5)

Literal531212345 == <<"5", "3", "1", "2", "1", "2", "3", "4", "5">>

\* C3: Smart-Split of "531212345" is (5, 3, 12, 12345).
C3_SmartSplitLiteral ==
    (Returned /\ call.digits = Literal531212345)
        => ret[1] = <<5, 3, 12, 12345>>

C3_Witness ==
    /\ Returned
    /\ call.digits = Literal531212345
    /\ ret[1][3] = 12

\* The candidate of one gold length: whether it is valid, its score, its
\* tuple.
cand_valid(digits, gold_len) ==
    /\ Len(digits) >= 7
    /\ Len(digits) >= gold_len + 3
    /\ 3000 <= int(last_chars(digits, gold_len))
    /\ int(last_chars(digits, gold_len)) <= 40000
    /\ _parse_kda_all_combinations(before_last(digits, gold_len)) # None

cand_score(digits, gold_len) ==
    LET G == int(last_chars(digits, gold_len))
    IN  IF 8000 <= G /\ G <= 30000 THEN 10 ELSE 5

cand_tuple(digits, gold_len) ==
    LET kda == _parse_kda_all_combinations(before_last(digits, gold_len))
    IN  <<kda[1], kda[2], kda[3], int(last_chars(digits, gold_len))>>

\* C4: the 5-digit-gold candidate is returned whenever it is valid unless
\* the 4-digit-gold candidate is also valid and scores strictly higher (10
\* for 8000<=G<=30000, else 5); neither valid gives (0,0,0,0).
C4_HigherScoreWins ==
    Returned =>
        LET d == call.digits
        IN  ret[1] =
              IF cand_valid(d, 5)
                 /\ ~(cand_valid(d, 4) /\ cand_score(d, 4) > cand_score(d, 5))
              THEN cand_tuple(d, 5)
              ELSE IF cand_valid(d, 4) THEN cand_tuple(d, 4)
              ELSE Zero

C4_Witness ==
    /\ Returned
    /\ cand_valid(call.digits, 5)
    /\ cand_valid(call.digits, 4)
    /\ cand_score(call.digits, 4) > cand_score(call.digits, 5)
    /\ ret[1] = cand_tuple(call.digits, 4)
    /\ ret[1] # cand_tuple(call.digits, 5)

-----------------------------------------------------------------------------
(* Claims about _parse_rating.                                             *)

has_dot(text) == \E i \in 1..Len(text) : text[i] = "."

\* v * 10 for a float with at most one fractional digit.
times_ten(v) == IF v[2] = 0 THEN v[1] * 10 ELSE v[1]

\* C5: _parse_rating returns the caller's default or a value in [3.0, 20.0]
\* with exactly one decimal digit (v*10 is an integer between 30 and 200).
C5_RatingDefaultOrInRange ==
    Returned =>
        \/ ret[1] = call.default
        \/ /\ ret[1][2] <= 1
           /\ 30 <= times_ten(ret[1])
           /\ times_ten(ret[1]) <= 200

C5_Witness ==
    /\ Returned
    /\ has_dot(call.text)
    /\ ret[1] # call.default
    /\ ret[1][2] = 1
    /\ \E i \in 1..(Len(call.text) - 2) :
           /\ call.text[i] = "."
           /\ call.text[i + 1] \in DigitChars
           /\ call.text[i + 2] \in DigitChars

\* The text holds exactly one decimal point, at position i.
only_dot_at(text, i) ==
    /\ i \in 1..Len(text)
    /\ text[i] = "."
    /\ \A j \in 1..Len(text) : text[j] = "." => j = i

\* The integer part joined with the first fractional digit, for a text whose
\* only decimal point is at position i.
dotted_candidate(text, i) ==
    LET integer_part == filter_isdigit(SubSeq(text, 1, i - 1))
        fraction     == filter_isdigit(SubSeq(text, i + 1, Len(text)))
    IN  float_of(integer_part,
                 IF Len(fraction) > 0 THEN <<fraction[1]>> ELSE <<"0">>)

\* C6 (as stated): for a text with a decimal point the only candidate is the
\* integer part joined with the first fractional digit; a dotted text whose
\* candidate is out of range yields the default.
C6_DottedOnlyCandidate ==
    Returned =>
        \A i \in 1..Len(call.text) :
            (only_dot_at(call.text, i) /\ Len(filter_isdigit(call.text)) > 0)
                => ret[1] = IF in_range(dotted_candidate(call.text, i))
                            THEN dotted_candidate(call.text, i)
                            ELSE call.default

\* C6 (amended): for a text with a decimal point, the integer part joined
\* with the first fractional digit is returned when the text has exactly one
\* decimal point and that value is in [3.0, 20.0]; in every other case the
\* result is what the digit rules give for the text's digits alone.
C6_DottedThenDigitRules ==
    (Returned /\ has_dot(call.text)) =>
        IF \E i \in 1..Len(call.text) :
               /\ only_dot_at(call.text, i)
               /\ Len(filter_isdigit(call.text)) > 0
               /\ in_range(dotted_candidate(call.text, i))
        THEN \E i \in 1..Len(call.text) :
                 /\ only_dot_at(call.text, i)
                 /\ ret[1] = dotted_candidate(call.text, i)
        ELSE ret[1] = _parse_rating(filter_isdigit(call.text), call.default)

C6_Witness ==
    /\ Returned
    /\ call.text = <<"7", "5", ".", "7">>
    /\ ret[1] = <<75, 1>>

\* The candidate the digit rules form for 1, 2 or 3 digits.
short_candidate(d) ==
    IF Len(d) = 1 THEN float_of(d, <<"0">>)
    ELSE IF Len(d) = 2 THEN float_of(<<d[1]>>, <<d[2]>>)
    ELSE IF in_range(float_of(<<d[1], d[2]>>, <<d[3]>>))
         THEN float_of(<<d[1], d[2]>>, <<d[3]>>)
         ELSE float_of(<<d[1]>>, <<d[2]>>)

\* C7: without a decimal point and with 1, 2 or 3 digits the candidate is
\* d.0, d[0].d[1], or d[0:2].d[2] replaced by d[0].d[1] when out of range;
\* it is returned if in [3.0, 20.0], else the default.  "78" -> 7.8,
\* "61" -> 6.1, "115" -> 11.5, and no digits ("abc") -> default.
C7_ShortDigitRules ==
    (Returned /\ ~has_dot(call.text)) =>
        LET d == filter_isdigit(call.text)
        IN  /\ Len(d) = 0 => ret[1] = call.default
            /\ Len(d) \in 1..3 =>
                   ret[1] = IF in_range(short_candidate(d))
                            THEN short_candidate(d)
                            ELSE call.default
            /\ call.text = <<"7", "8">> => ret[1] = <<78, 1>>
            /\ call.text = <<"6", "1">> => ret[1] = <<61, 1>>
            /\ call.text = <<"1", "1", "5">> => ret[1] = <<115, 1>>
            /\ call.text = <<"a", "b", "c">> => ret[1] = call.default

C7_Witness ==
    /\ Returned
    /\ ~has_dot(call.text)
    /\ Len(filter_isdigit(call.text)) = 3
    /\ ~in_range(float_of(SubSeq(filter_isdigit(call.text), 1, 2),
                          SubSeq(filter_isdigit(call.text), 3, 3)))
    /\ ret[1] # call.default

\* X.Y from the digits at positions i and i+1, XX.Y from those at i..i+2.
x_y(d, i) == float_of(<<d[i]>>, <<d[i + 1]>>)

xx_y(d, i) == float_of(<<d[i], d[i + 1]>>, <<d[i + 2]>>)

-----------------------------------------------------------------------------
(* Claims about _parse_result and _parse_duration.                         *)

\* kw occurs in text when letter case is ignored.
contains_ci(text, kw) ==
    \E i \in 0..(Len(text) - Len(kw)) :
        \A j \in 1..Len(kw) : upper_char(text[i + j]) = kw[j]

victory_word(text) ==
    contains_ci(text, KwVICTORY) \/ contains_ci(text, KwVICTOR)
        \/ contains_ci(text, KwWIN)

defeat_word(text) ==
    contains_ci(text, KwDEFEAT) \/ contains_ci(text, KwLOSE)
        \/ contains_ci(text, KwLOSS)

\* C9: _parse_result is total and case-insensitive: VICTORY if the text
\* contains VICTORY, VICTOR or WIN; otherwise DEFEAT if it contains DEFEAT,
\* LOSE or LOSS; otherwise UNKNOWN.  "Y0U WIN" -> VICTORY, "xyz" -> UNKNOWN.
C9_ResultKeywords ==
    Returned =>
        /\ ret[1] = IF victory_word(call.text) THEN "VICTORY"
                    ELSE IF defeat_word(call.text) THEN "DEFEAT"
                    ELSE "UNKNOWN"
        /\ call.text = <<"Y", "0", "U", " ", "W", "I", "N">> => ret[1] = "VICTORY"
        /\ call.text = <<"x", "y", "z">> => ret[1] = "UNKNOWN"

C9_Witness ==
    /\ Returned
    /\ victory_word(call.text)
    /\ defeat_word(call.text)
    /\ ~contains(call.text, KwWIN)
    /\ ~contains(call.text, KwVICTOR)
    /\ ret[1] = "VICTORY"

\* One or two digits (m of them), a colon and two digits start at i.
duration_at(text, i, m) ==
    /\ i >= 1
    /\ i + m + 2 <= Len(text)
    /\ \A j \in i..(i + m - 1) : text[j] \in DigitChars
    /\ text[i + m] = ":"
    /\ text[i + m + 1] \in DigitChars
    /\ text[i + m + 2] \in DigitChars

has_duration(text) ==
    \E i \in 1..Len(text) : \E m \in 1..2 : duration_at(text, i, m)

\* Left-padded with zeros to length 2.
pad2(run) == IF Len(run) = 0 THEN <<"0", "0">>
             ELSE IF Len(run) = 1 THEN <<"0">> \o run
             ELSE run

\* C10: _parse_duration returns the first match of one-or-two digits, colon,
\* two digits; otherwise, with at least two digit runs, the first run, a
\* colon and the second run left-padded to length 2 ("18 45" -> "18:45");
\* otherwise "00:00" ("garbage" -> "00:00").
C10_DurationRules ==
    Returned =>
        LET text == call.text
            runs == findall_digits(text)
        IN  /\ has_duration(text) =>
                   \E i \in 1..Len(text) : \E m \in 1..2 :
                       /\ duration_at(text, i, m)
                       /\ \A i2 \in 1..(i - 1) : \A m2 \in 1..2 :
                              ~duration_at(text, i2, m2)
                       /\ ret[1] = SubSeq(text, i, i + m + 2)
            /\ (~has_duration(text) /\ Len(runs) >= 2) =>
                   ret[1] = runs[1] \o <<":">> \o pad2(runs[2])
            /\ (~has_duration(text) /\ Len(runs) < 2) =>
                   ret[1] = <<"0", "0", ":", "0", "0">>
            /\ text = <<"1", "8", " ", "4", "5">> =>
                   ret[1] = <<"1", "8", ":", "4", "5">>
            /\ text = <<"g", "a", "r", "b", "a", "g", "e">> =>
                   ret[1] = <<"0", "0", ":", "0", "0">>

C10_Witness ==
    /\ Returned
    /\ ~has_duration(call.text)
    /\ Len(findall_digits(call.text)) >= 2
    /\ Len(findall_digits(call.text)[2]) = 1
    /\ Len(ret[1]) = Len(findall_digits(call.text)[1]) + 3

-----------------------------------------------------------------------------
(* C11                                                                     *)

\* One or two digits, a colon, exactly two digits.
is_mm_ss(d) ==
    /\ Len(d) \in {4, 5}
    /\ d[Len(d) - 2] = ":"
    /\ \A i \in 1..Len(d) : i # Len(d) - 2 => d[i] \in DigitChars

\* C11: every value _parse_duration returns has the mm:ss form: one or two
\* digits, a colon, then exactly two digits.
C11_DurationIsMmSs ==
    Returned /\ call.fn = "_parse_duration" => is_mm_ss(ret[1])

-----------------------------------------------------------------------------
(* RegionConfig.to_pixels / Region.to_pixels                               *)

\* int((percent / 100) * dimension), with percent a double.
to_pixel(percent, dimension) ==
    dbl_trunc(dbl_mul_int(dbl_div_int(percent, 100), dimension))

to_pixels(self, image_width, image_height) ==
    <<to_pixel(self.x, image_width), to_pixel(self.y, image_height),
      to_pixel(self.w, image_width), to_pixel(self.h, image_height)>>

\* Percentages, in quarters of a percent (0, 8.75, 29, 57, 100): each is a
\* double without rounding.
QuarterPercents == {0, 35, 116, 228, 400}

Percents == {dbl_of(q, -2) : q \in QuarterPercents}

Regions == [x : Percents, y : Percents, w : Percents, h : Percents]

ImageWidths == {100, 720, 2400}

ImageHeights == {100, 1080}

InitPixels ==
    /\ call \in [fn : {"to_pixels"}, self : Regions,
                  image_width : ImageWidths, image_height : ImageHeights]
    /\ ret = Pending
    /\ ConfigInit

ToPixels ==
    /\ call.fn = "to_pixels"
    /\ ret = Pending
    /\ ret' = <<to_pixels(call.self, call.image_width, call.image_height)>>
    /\ UNCHANGED <<call, config>>

SpecPixels == InitPixels /\ [][ToPixels]_vars

(* C12                                                                     *)

\* Four times the value of a double that is a whole number of quarters.
quarters(f) == IF f = DZero THEN 0 ELSE dbl_trunc(<<f[1], f[2] + 2>>)

\* floor(percent * dimension / 100), computed exactly.
exact_pixel(percent, dimension) == (quarters(percent) * dimension) \div 400

\* C12: for percentages in [0, 100], to_pixels returns the floors of
\* x*W/100, y*H/100, w*W/100 and h*H/100; the horizontal components lie in
\* [0, W], the vertical ones in [0, H]; and each component computed for the
\* image (2W, 2H), halved and floored, is the component computed for (W, H).
C12_ToPixelsFloor ==
    Returned /\ call.fn = "to_pixels" =>
        LET r  == call.self
            W  == call.image_width
            H  == call.image_height
            p1 == ret[1]
            p2 == to_pixels(r, 2 * W, 2 * H)
        IN  /\ p1 = <<exact_pixel(r.x, W), exact_pixel(r.y, H),
                      exact_pixel(r.w, W), exact_pixel(r.h, H)>>
            /\ p1[1] \in 0..W /\ p1[3] \in 0..W
            /\ p1[2] \in 0..H /\ p1[4] \in 0..H
            /\ \A i \in 1..4 : p2[i] \div 2 = p1[i]

-----------------------------------------------------------------------------
(* Specification of the ExtractorConfig: after construction, its methods   *)
(* are called in any order with any arguments; each step is one call with  *)
(* its outcome.                                                            *)

ProfileNames == {"default_2400x1080", "hd", "tablet"}

\* <<reference_width, reference_height, number of player rows>>
ProfileShapes == {<<1600, 1200, 5>>, <<2400, 0, 5>>, <<1600, 1200, 4>>}

InputProfiles ==
    {[name |-> n, reference_width |-> s[1], reference_height |-> s[2],
      players |-> PlayerRows(s[3])] : n \in ProfileNames, s \in ProfileShapes}

\* The well-formed profile entries of the configuration files.
FileEntries ==
    {q \in InputProfiles : q.name = "hd" /\ q.reference_height # 0}

\* The "profiles" lists of the configuration files: no entry, one entry, or
\* one entry followed by one that lacks the "players" key.
FileProfiles ==
    {<<>>}
    \cup {<<p>> : p \in FileEntries}
    \cup {<<p, [name |-> "tablet", reference_width |-> 1600,
                reference_height |-> 1200]>> : p \in FileEntries}

\* The JSON objects of the configuration files.
FileDatas ==
    {[profiles |-> ps] : ps \in FileProfiles}
    \cup {[profiles |-> ps, active_profile |-> a] :
             ps \in FileProfiles, a \in ProfileNames}
    \cup {[active_profile |-> a] : a \in ProfileNames}

\* <<width, height>> of the screenshots
ScreenshotSizes == {<<1920, 1080>>, <<2400, 1080>>, <<1600, 1200>>}

InitConfig ==
    /\ call = [fn |-> "__init__"]
    /\ ret = <<Return("None")>>
    /\ ConfigInit

\* Each action is one call: r is <<outcome, profiles, active_profile_name>>.

SetActiveProfile ==
    \E profile_name \in ProfileNames :
        \E r \in {set_active_profile(profiles, active_profile_name, profile_name)} :
            /\ call' = [fn |-> "set_active_profile",
                        profile_name |-> profile_name]
            /\ ret' = <<r[1]>>
            /\ profiles' = r[2]
            /\ active_profile_name' = r[3]

AddProfile ==
    \E profile \in InputProfiles :
        \E r \in {add_profile(profiles, active_profile_name, profile)} :
            /\ call' = [fn |-> "add_profile", profile |-> profile]
            /\ ret' = <<r[1]>>
            /\ profiles' = r[2]
            /\ active_profile_name' = r[3]

RemoveProfile ==
    \E profile_name \in ProfileNames :
        \E r \in {remove_profile(profiles, active_profile_name, profile_name)} :
            /\ call' = [fn |-> "remove_profile", profile_name |-> profile_name]
            /\ ret' = <<r[1]>>
            /\ profiles' = r[2]
            /\ active_profile_name' = r[3]

\* config_path names no file (data is then not read) or a file.
LoadFromFile ==
    \E exists \in BOOLEAN :
        \E data \in IF exists THEN FileDatas ELSE {[profiles |-> <<>>]} :
            \E r \in {load_from_file(profiles, active_profile_name, exists, data)} :
                /\ call' = [fn |-> "load_from_file", exists |-> exists,
                            data |-> data]
                /\ ret' = <<r[1]>>
                /\ profiles' = r[2]
                /\ active_profile_name' = r[3]

AutoSelectProfile ==
    \E size \in ScreenshotSizes :
        \E r \in {auto_select_profile(profiles, active_profile_name,
                                     size[1], size[2])} :
            /\ call' = [fn |-> "auto_select_profile", image_width |-> size[1],
                        image_height |-> size[2]]
            /\ ret' = <<r[1]>>
            /\ profiles' = r[2]
            /\ active_profile_name' = r[3]

NextConfig ==
    \/ SetActiveProfile
    \/ AddProfile
    \/ RemoveProfile
    \/ LoadFromFile
    \/ AutoSelectProfile

SpecConfig == InitConfig /\ [][NextConfig]_vars

-----------------------------------------------------------------------------
(* Claims about the ExtractorConfig.                                       *)

Returns == Returned /\ "return" \in DOMAIN ret[1]

Raises(exception) ==
    Returned /\ "raise" \in DOMAIN ret[1] /\ ret[1].raise = exception

RECURSIVE gcd(_, _)
gcd(a, b) == IF b = 0 THEN a ELSE gcd(b, a % b)

\* |W/H - w/h| as an exact fraction <<numerator, denominator>>.
exact_diff(W, H, w, h) ==
    LET g1 == gcd(W, H)
        g2 == gcd(w, h)
    IN  <<abs((W \div g1) * (h \div g2) - (w \div g2) * (H \div g1)),
          (H \div g1) * (h \div g2)>>

frac_lt(x, y) == x[1] * y[2] < y[1] * x[2]

profile_diff(profs, i, W, H) ==
    exact_diff(W, H, profs[i].reference_width, profs[i].reference_height)

\* The earliest profile whose difference from W/H is minimal.
first_minimal(profs, W, H) ==
    CHOOSE i \in 1..Len(profs) :
        \A j \in 1..Len(profs) :
            /\ j < i => frac_lt(profile_diff(profs, i, W, H),
                                profile_diff(profs, j, W, H))
            /\ j > i => ~frac_lt(profile_diff(profs, j, W, H),
                                 profile_diff(profs, i, W, H))

\* C13: auto_select_profile(W, H) makes active, and returns the name of, a
\* registered profile whose |W/H - reference_width/reference_height| is
\* minimal; among several minimal ones it is the earliest in insertion
\* order.
C13_AutoSelectFirstMinimal ==
    Returns /\ call.fn = "auto_select_profile" =>
        LET best == profiles[first_minimal(profiles, call.image_width,
                                           call.image_height)].name
        IN  /\ ret[1].return = best
            /\ active_profile_name = best

\* C14: auto_select_profile never fails: in every registry state it
\* completes without raising and leaves a registered active profile name.
C14_AutoSelectNeverFails ==
    call.fn = "auto_select_profile" =>
        Returns /\ active_profile_name \in keys(profiles)

\* The default profile's name and the active name are registered.
NamesRegistered ==
    /\ DEFAULT_PROFILE.name \in keys(profiles)
    /\ active_profile_name \in keys(profiles)

\* A remove_profile call on the default or the active profile raises
\* ValueError and changes nothing.
RemoveRefused ==
    call'.fn = "remove_profile"
    /\ call'.profile_name \in {DEFAULT_PROFILE.name, active_profile_name} =>
        ret' = <<Raise("ValueError")>> /\ UNCHANGED config

\* C15: after any sequence of add_profile, remove_profile,
\* set_active_profile, auto_select_profile and load_from_file calls, failed
\* or not, the default profile's name and the active profile name are
\* registered; remove_profile on the default or the active profile raises
\* ValueError and leaves the registry and the active profile unchanged.
C15_DefaultAndActiveRegistered == []NamesRegistered /\ [][RemoveRefused]_vars

C15_Witness ==
    /\ call.fn = "remove_profile"
    /\ call.profile_name = active_profile_name
    /\ call.profile_name # DEFAULT_PROFILE.name
    /\ Raises("ValueError")
    /\ Len(profiles) >= 2

\* C16: every profile held by the registry has exactly 5 player rows.
C16_FivePlayerRows ==
    \A i \in 1..Len(profiles) : Len(profiles[i].players) = 5

\* A set_active_profile call with an unregistered name raises KeyError and
\* changes nothing.
SetActiveRefused ==
    call'.fn = "set_active_profile" /\ call'.profile_name \notin keys(profiles) =>
        ret' = <<Raise("KeyError")>> /\ UNCHANGED config

\* The call is a load of a file whose active_profile names no profile of the
\* registry as the load leaves it.
LoadsUnregisteredActive ==
    /\ call'.fn = "load_from_file"
    /\ call'.exists
    /\ "active_profile" \in DOMAIN call'.data
    /\ call'.data.active_profile \notin keys(profiles')

well_formed(profile_datas) ==
    \A i \in 1..Len(profile_datas) : "return" \in DOMAIN from_dict(profile_datas[i])

-----------------------------------------------------------------------------
(* _detect_medal_color.  The region is given after cvtColor, as the number *)
(* of its pixels of each HSV colour of a palette.                          *)

gold_lower == <<15, 80, 120>>
gold_upper == <<35, 255, 255>>

silver_lower == <<0, 0, 150>>
silver_upper == <<180, 50, 255>>

bronze_lower == <<8, 80, 80>>
bronze_upper == <<20, 255, 200>>

\* cv2.inRange for one pixel
inRange(hsv, lowerb, upperb) ==
    \A c \in 1..3 : lowerb[c] <= hsv[c] /\ hsv[c] <= upperb[c]

RECURSIVE sum_counts(_, _)
sum_counts(region, colours) ==
    IF colours = {} THEN 0
    ELSE LET hsv == CHOOSE c \in colours : TRUE
         IN  region[hsv] + sum_counts(region, colours \ {hsv})

\* region.size
size(region) == 3 * sum_counts(region, DOMAIN region)

\* cv2.countNonZero(cv2.inRange(hsv, lowerb, upperb))
countNonZero(region, lowerb, upperb) ==
    sum_counts(region, {hsv \in DOMAIN region : inRange(hsv, lowerb, upperb)})

\* _detect_medal_color with the threshold test as max_pixels <= 50.
_detect_medal_color_le(region) ==
    IF size(region) = 0 THEN "NONE"
    ELSE LET gold_pixels   == countNonZero(region, gold_lower, gold_upper)
             silver_pixels == countNonZero(region, silver_lower, silver_upper)
             bronze_pixels == countNonZero(region, bronze_lower, bronze_upper)
             max_pixels == max(gold_pixels, max(silver_pixels, bronze_pixels))
         IN  IF max_pixels <= 50 THEN "NONE"
             ELSE IF max_pixels = gold_pixels THEN "GOLD"
             ELSE IF max_pixels = silver_pixels THEN "SILVER"
             ELSE "BRONZE"

_detect_medal_color(region) ==
    IF size(region) = 0 THEN "NONE"
    ELSE LET gold_pixels   == countNonZero(region, gold_lower, gold_upper)
             silver_pixels == countNonZero(region, silver_lower, silver_upper)
             bronze_pixels == countNonZero(region, bronze_lower, bronze_upper)
             max_pixels == max(gold_pixels, max(silver_pixels, bronze_pixels))
         IN  IF max_pixels < 50 THEN "NONE"
             ELSE IF max_pixels = gold_pixels THEN "GOLD"
             ELSE IF max_pixels = silver_pixels THEN "SILVER"
             ELSE "BRONZE"

\* HSV colours: in the gold window only, in the gold and the bronze window,
\* in the bronze window only, in the silver window, black.
Palette ==
    {<<25, 200, 220>>, <<18, 200, 150>>, <<10, 200, 100>>, <<0, 0, 200>>,
     <<0, 0, 0>>}

PixelCounts == {0, 20, 30, 49, 50}

MedalRegions == [Palette -> PixelCounts]

InitMedal ==
    /\ call \in [fn : {"_detect_medal_color"}, region : MedalRegions]
    /\ ret = Pending
    /\ ConfigInit

DetectMedalColor ==
    /\ call.fn = "_detect_medal_color"
    /\ ret = Pending
    /\ ret' = <<_detect_medal_color(call.region)>>
    /\ UNCHANGED <<call, config>>

SpecMedal == InitMedal /\ [][DetectMedalColor]_vars

(* C19                                                                     *)

window_counts(region) ==
    <<countNonZero(region, gold_lower, gold_upper),
      countNonZero(region, silver_lower, silver_upper),
      countNonZero(region, bronze_lower, bronze_upper)>>

\* C19: with the pixel counts of the gold, silver and bronze windows,
\* _detect_medal_color returns NONE when the largest count is below 50 (an
\* empty or all-black region included); otherwise GOLD if the gold count is
\* the largest, else SILVER if the silver count is, else BRONZE.
C19_MedalByLargestCount ==
    Returned /\ call.fn = "_detect_medal_color" =>
        LET n == window_counts(call.region)
            largest == max(n[1], max(n[2], n[3]))
        IN  /\ largest < 50 => ret[1] = "NONE"
            /\ largest >= 50 /\ n[1] = largest => ret[1] = "GOLD"
            /\ largest >= 50 /\ n[1] < largest /\ n[2] = largest =>
                   ret[1] = "SILVER"
            /\ largest >= 50 /\ n[1] < largest /\ n[2] < largest =>
                   ret[1] = "BRONZE"

C19_Witness ==
    /\ Returned
    /\ call.fn = "_detect_medal_color"
    /\ window_counts(call.region) = <<50, 50, 50>>
    /\ ret[1] = "GOLD"

-----------------------------------------------------------------------------
(* find_player_by_nickname.  texts[i] is what the OCR engine returned       *)
(* (stripped) for the nickname region of row i of the active profile;      *)
(* nickname_mappings is the alias table, a set of <<original, mapped>>.    *)
(* An Optional[int] is None or <<int>>.                                    *)

\* str.lower() on one character.
lower_char(c) ==
    CASE c = "A" -> "a" [] c = "B" -> "b" [] c = "C" -> "c" [] c = "D" -> "d"
      [] c = "E" -> "e" [] c = "F" -> "f" [] c = "G" -> "g" [] c = "H" -> "h"
      [] c = "I" -> "i" [] c = "J" -> "j" [] c = "K" -> "k" [] c = "L" -> "l"
      [] c = "M" -> "m" [] c = "N" -> "n" [] c = "O" -> "o" [] c = "P" -> "p"
      [] c = "Q" -> "q" [] c = "R" -> "r" [] c = "S" -> "s" [] c = "T" -> "t"
      [] c = "U" -> "u" [] c = "V" -> "v" [] c = "W" -> "w" [] c = "X" -> "x"
      [] c = "Y" -> "y" [] c = "Z" -> "z" [] OTHER -> c

lower(text) == [i \in 1..Len(text) |-> lower_char(text[i])]

Whitespace == {" ", "\n", "\r", "\t"}

\* The characters that the two re.sub calls of _clean_nickname remove from
\* the ends of the text, but for the backquote, which no text here holds.
SpecialChars ==
    {"@", "#", "$", "%", "^", "&", "*", "(", ")", "_", "+", "=", "[", "]",
     "{", "}", "|", "\\", "<", ">", "/", "?", "~"}

\* text without its leading characters of the set chars
RECURSIVE lstrip(_, _)
lstrip(text, chars) ==
    IF Len(text) > 0 /\ text[1] \in chars THEN lstrip(Tail(text), chars)
    ELSE text

\* text without its trailing characters of the set chars
RECURSIVE rstrip(_, _)
rstrip(text, chars) ==
    IF Len(text) > 0 /\ text[Len(text)] \in chars
    THEN rstrip(SubSeq(text, 1, Len(text) - 1), chars)
    ELSE text

\* str.strip()
strip(text) == rstrip(lstrip(text, Whitespace), Whitespace)

\* The two replace calls: a newline becomes a space, a carriage return goes.
replace_newlines(text) ==
    LET spaced == [i \in 1..Len(text) |->
                      IF text[i] = "\n" THEN " " ELSE text[i]]
    IN  SelectSeq(spaced, LAMBDA c : c # "\r")

\* re.sub of whitespace runs: every run of whitespace becomes one space.
RECURSIVE collapse_spaces(_)
collapse_spaces(text) ==
    IF Len(text) = 0 THEN <<>>
    ELSE IF text[1] \in Whitespace
    THEN <<" ">> \o collapse_spaces(lstrip(text, Whitespace))
    ELSE <<text[1]>> \o collapse_spaces(Tail(text))

_clean_nickname(text) ==
    LET cleaned1 == strip(text)
        cleaned2 == lstrip(cleaned1, SpecialChars)
        cleaned3 == rstrip(cleaned2, SpecialChars)
        cleaned4 == replace_newlines(cleaned3)
        cleaned5 == collapse_spaces(cleaned4)
    IN  strip(cleaned5)

_apply_nickname_mapping(nickname_mappings, nickname) ==
    IF \E m \in nickname_mappings : m[1] = nickname
    THEN (CHOOSE m \in nickname_mappings : m[1] = nickname)[2]
    ELSE nickname

\* extract_player_nickname after the OCR call
extract_player_nickname(nickname_mappings, text) ==
    _apply_nickname_mapping(nickname_mappings, _clean_nickname(strip(text)))

\* set(name)
chars_of(name) == {name[i] : i \in 1..Len(name)}

\* The default of the parameter threshold, 0.6.
threshold == dbl_div(6, 10)

\* _similar_names that wants the ratio above the threshold.
_similar_names_above(name1, name2) ==
    IF Len(name1) = 0 \/ Len(name2) = 0 THEN FALSE
    ELSE LET set1 == chars_of(name1)
             set2 == chars_of(name2)
             intersection == Cardinality(set1 \cap set2)
             union == Cardinality(set1 \cup set2)
         IN  IF union = 0 THEN FALSE
             ELSE dbl_lt(threshold, dbl_div(intersection, union))

_similar_names(name1, name2) ==
    IF Len(name1) = 0 \/ Len(name2) = 0 THEN FALSE
    ELSE LET set1 == chars_of(name1)
             set2 == chars_of(name2)
             intersection == Cardinality(set1 \cap set2)
             union == Cardinality(set1 \cup set2)
         IN  IF union = 0 THEN FALSE
             ELSE ~dbl_lt(dbl_div(intersection, union), threshold)

\* The list possible_targets, as a set: its order decides nothing.
possible_targets(nickname_mappings, target_lower) ==
    {target_lower}
    \cup {lower(strip(m[1])) : m \in {mm \in nickname_mappings :
                                   lower(strip(mm[2])) = target_lower}}
    \cup {lower(strip(m[2])) : m \in {mm \in nickname_mappings :
                                   lower(strip(mm[2])) # target_lower
                                   /\ lower(strip(mm[1])) = target_lower}}

\* The loop over the rows from row idx (0-based) on.
RECURSIVE find_from(_, _, _, _)
find_from(nickname_mappings, texts, targets, idx) ==
    IF idx >= Len(texts) THEN None
    ELSE LET nickname == extract_player_nickname(nickname_mappings,
                                                 texts[idx + 1])
             nickname_lower == lower(strip(nickname))
         IN  IF \E target \in targets :
                    \/ contains(nickname_lower, target)
                    \/ contains(target, nickname_lower)
                    \/ _similar_names(target, nickname_lower)
             THEN <<idx>>
             ELSE find_from(nickname_mappings, texts, targets, idx + 1)

find_player_by_nickname(nickname_mappings, texts, target_nickname) ==
    find_from(nickname_mappings, texts,
              possible_targets(nickname_mappings, lower(strip(target_nickname))),
              0)

\* self.config.active_profile
active_profile == profiles[index_of(profiles, active_profile_name)]

TextMTF7 == <<"M", "T", "F", "7">>

TextMTFDash == <<"M", "T", "F", "-">>

TextTagMTF7 == <<"[", "M", "T", "F", "]", " ", "M", "T", "F", "7">>

TextZed == <<"#", "Z", "e", "d", "\n", "x">>

\* What the OCR engine reads in a nickname region.
NicknameTexts == {<<>>, TextTagMTF7, TextMTFDash, TextZed}

TargetNicknames ==
    {TextMTF7, <<" ", "m", "t", "f", "-", " ">>, <<"Z", "E", "D", " ", "X">>}

\* The alias tables of nickname_mappings.json.
NicknameMappings ==
    {{}, {<<TextMTFDash, TextMTF7>>}, {<<<<"Z", "e", "d", " ", "x">>, TextMTFDash>>}}

InitFind ==
    /\ ConfigInit
    /\ call \in [fn : {"find_player_by_nickname"},
                  nickname_mappings : NicknameMappings,
                  texts : [1..Len(DEFAULT_PROFILE.players) -> NicknameTexts],
                  target_nickname : TargetNicknames]
    /\ ret = Pending

FindPlayerByNickname ==
    /\ call.fn = "find_player_by_nickname"
    /\ ret = Pending
    /\ Len(call.texts) = Len(active_profile.players)
    /\ ret' = <<find_player_by_nickname(call.nickname_mappings, call.texts,
                                        call.target_nickname)>>
    /\ UNCHANGED <<call, config>>

SpecFind == InitFind /\ [][FindPlayerByNickname]_vars

(* C20                                                                     *)

\* The case-folded trimmed target and its alias equivalents, the alias table
\* read in both directions.
alias_equivalents(nickname_mappings, target_nickname) ==
    LET t == lower(strip(target_nickname))
    IN  {t}
        \cup {lower(strip(m[1])) : m \in {mm \in nickname_mappings :
                                       lower(strip(mm[2])) = t}}
        \cup {lower(strip(m[2])) : m \in {mm \in nickname_mappings :
                                       lower(strip(mm[1])) = t}}

\* t in n, n in t, or at least 0.6 of the distinct characters in common.
name_matches(t, n) ==
    \/ contains(n, t)
    \/ contains(t, n)
    \/ /\ chars_of(t) \cup chars_of(n) # {}
       /\ 5 * Cardinality(chars_of(t) \cap chars_of(n))
              >= 3 * Cardinality(chars_of(t) \cup chars_of(n))

\* Row i (0-based) of the call satisfies the match relation.
row_matches(i) ==
    \E t \in alias_equivalents(call.nickname_mappings, call.target_nickname) :
        name_matches(t, lower(strip(extract_player_nickname(
                            call.nickname_mappings, call.texts[i + 1]))))

\* C20: find_player_by_nickname returns the smallest row index i in 0..4
\* whose case-folded trimmed text n matches the case-folded trimmed target or
\* one of its alias equivalents t: t in n, n in t, or the distinct characters
\* in common are at least 0.6 of all distinct characters; it returns None
\* exactly when no row matches.  Target "MTF7" matches "[MTF] MTF7" by
\* substring and "MTF-" by similarity 3/5.
C20_FirstMatchingRow ==
    Returned /\ call.fn = "find_player_by_nickname" =>
        /\ ret[1] = None <=> \A i \in 0..4 : ~row_matches(i)
        /\ ret[1] # None =>
               /\ ret[1][1] \in 0..4
               /\ row_matches(ret[1][1])
               /\ \A j \in 0..(ret[1][1] - 1) : ~row_matches(j)
        /\ call.target_nickname = TextMTF7 /\ call.nickname_mappings = {} =>
               \A i \in 0..4 :
                   call.texts[i + 1] \in {TextTagMTF7, TextMTFDash} =>
                       ret[1] # None /\ ret[1][1] <= i

C20_Witness ==
    /\ Returned
    /\ call.fn = "find_player_by_nickname"
    /\ call.target_nickname = TextMTF7
    /\ call.nickname_mappings = {}
    /\ call.texts[1] = TextZed
    /\ call.texts[2] = TextZed
    /\ call.texts[3] = TextMTFDash
    /\ ret[1] = <<2>>

-----------------------------------------------------------------------------
(* extract_all_players.  A screenshot is its size, what the OCR engine     *)
(* reads in the four match regions, and for each of the five rows on the   *)
(* screen what the engine reads in the row and the pixel counts of its     *)
(* medal.  A player region of a profile is the number of the row it        *)
(* frames.                                                                 *)

_parse_number(text, default) ==
    LET numbers == findall_digits(text)
    IN  IF Len(numbers) > 0 THEN int(numbers[1]) ELSE default

extract_match_info(match) ==
    [result               |-> _parse_result(strip(match.result)),
     my_team_score        |-> _parse_number(strip(match.my_team_score), 0),
     adversary_team_score |-> _parse_number(strip(match.adversary_score), 0),
     duration             |-> _parse_duration(strip(match.duration))]

\* The threshold reading, then the grayscale reading when the first gives
\* no positive rating.
extract_player_ratio(threshold_text, grayscale_text) ==
    LET result == _parse_rating(strip(threshold_text), <<0, 0>>)
    IN  IF result[1] > 0 THEN result
        ELSE _parse_rating(strip(grayscale_text), <<0, 0>>)

extract_player_medal(medal_region) == _detect_medal_color(medal_region)

\* The outcome of extract_player_data: players[player_index] raises
\* IndexError when the profile has no such row.  text1 and text2 are the
\* stripped OCR texts, stats the tuple extract_player_stats returns.
extract_player_data(nickname_mappings, profile, rows, player_index) ==
    IF player_index + 1 \notin DOMAIN profile.players
    THEN Raise("IndexError")
    ELSE LET row == rows[profile.players[player_index + 1]]
         IN  CHOOSE player_stats \in
                 {Return([nickname |-> extract_player_nickname(
                                           nickname_mappings, row.nickname),
                          kills    |-> stats[1],
                          deaths   |-> stats[2],
                          assists  |-> stats[3],
                          gold     |-> stats[4],
                          medal    |-> extract_player_medal(row.medal),
                          ratio    |-> extract_player_ratio(
                                           row.ratio_threshold,
                                           row.ratio_grayscale),
                          position |-> player_index + 1]) :
                     stats \in {extract_player_stats(text1, text2, row.words) :
                                   text1 \in {strip(row.text1)},
                                   text2 \in {strip(row.text2)}}} : TRUE

\* for idx in range(5): results.append(data)
RECURSIVE all_players_from(_, _, _, _, _, _)
all_players_from(nickname_mappings, profile, rows, match_info, idx, results) ==
    IF idx = 5 THEN Return(results)
    ELSE CHOOSE outcome \in
             {IF "raise" \in DOMAIN player_stats THEN player_stats
              ELSE all_players_from(
                       nickname_mappings, profile, rows, match_info, idx + 1,
                       Append(results,
                              [nickname |-> player_stats.return.nickname,
                               kills    |-> player_stats.return.kills,
                               deaths   |-> player_stats.return.deaths,
                               assists  |-> player_stats.return.assists,
                               gold     |-> player_stats.return.gold,
                               medal    |-> player_stats.return.medal,
                               ratio    |-> player_stats.return.ratio,
                               position |-> player_stats.return.position,
                               result   |-> match_info.result,
                               my_team_score |-> match_info.my_team_score,
                               adversary_team_score |->
                                   match_info.adversary_team_score,
                               duration |-> match_info.duration])) :
                 player_stats \in {extract_player_data(
                                       nickname_mappings, profile, rows,
                                       idx)}} : TRUE

\* <<outcome, profiles, active_profile_name>>; selected is what
\* auto_select_profile gives, match_info what extract_match_info returns.
extract_all_players(profs, active, nickname_mappings, image) ==
    CHOOSE outcome \in
        {IF "raise" \in DOMAIN selected[1] THEN selected
         ELSE <<all_players_from(
                    nickname_mappings,
                    selected[2][index_of(selected[2], selected[3])],
                    image.rows, match_info, 0, <<>>),
                selected[2], selected[3]>> :
             selected \in {auto_select_profile(profs, active, image.width,
                                               image.height)},
             match_info \in {extract_match_info(image.match)}} : TRUE

\* A row the engine reads nothing in, a row read in full, and a row whose
\* stats are one short run of digits and whose rating needs the second
\* reading.
BlankRow ==
    [nickname |-> <<>>, text1 |-> <<>>, text2 |-> <<>>, words |-> <<>>,
     ratio_threshold |-> <<>>, ratio_grayscale |-> <<>>,
     medal |-> [c \in Palette |-> 0]]

FullRow ==
    [nickname |-> TextTagMTF7,
     text1 |-> <<"5", " ", "3", " ", "1", "2", " ", "1", "2", "3", "4", "5",
                 "\n">>,
     text2 |-> <<>>, words |-> <<>>,
     ratio_threshold |-> <<"7", ".", "2">>, ratio_grayscale |-> <<>>,
     medal |-> [c \in Palette |-> IF c = <<25, 200, 220>> THEN 50 ELSE 0]]

FaintRow ==
    [nickname |-> TextZed,
     text1 |-> <<"5", "3", "1">>, text2 |-> <<"5", "3", "1">>,
     words |-> <<<<"5", "3", "1">>>>,
     ratio_threshold |-> <<".">>, ratio_grayscale |-> <<"1", "0", "2">>,
     medal |-> [c \in Palette |-> IF c = <<0, 0, 200>> THEN 50 ELSE 0]]

RowImages == {BlankRow, FullRow, FaintRow}

MatchImages ==
    {[result |-> KwVICTORY, my_team_score |-> <<"2", "1", "\n">>,
      adversary_score |-> <<"1", "4">>,
      duration |-> <<"1", "8", ":", "4", "5">>],
     [result |-> <<>>, my_team_score |-> <<>>, adversary_score |-> <<>>,
      duration |-> <<>>]}

Images ==
    [width : {wh[1] : wh \in ScreenshotSizes},
     height : {wh[2] : wh \in ScreenshotSizes},
     match : MatchImages,
     rows : [1..5 -> RowImages]]

\* The registry of ExtractorConfig(), and the registries after one
\* add_profile.
Registries ==
    {<<DEFAULT_PROFILE>>}
    \cup {add_profile(<<DEFAULT_PROFILE>>, DEFAULT_PROFILE.name, profile)[2] :
             profile \in InputProfiles}

InitAll ==
    /\ profiles \in Registries
    /\ active_profile_name = DEFAULT_PROFILE.name
    /\ call \in [fn : {"extract_all_players"},
                  nickname_mappings : {{<<TextMTFDash, TextMTF7>>}},
                  image : {image \in Images :
                              <<image.width, image.height>> \in ScreenshotSizes}]
    /\ ret = Pending

ExtractAllPlayers ==
    /\ call.fn = "extract_all_players"
    /\ ret = Pending
    /\ \E r \in {extract_all_players(profiles, active_profile_name,
                                     call.nickname_mappings, call.image)} :
           /\ ret' = <<r[1]>>
           /\ profiles' = r[2]
           /\ active_profile_name' = r[3]
    /\ UNCHANGED call

SpecAll == InitAll /\ [][ExtractAllPlayers]_vars

(* C17                                                                     *)

\* C17: extract_all_players returns exactly 5 records, their positions 1, 2,
\* 3, 4, 5 in that order, all with the result, my_team_score,
\* adversary_team_score and duration of the one match decode, whatever the
\* rows decode to and whichever registered profile is selected.
C17_FiveRecords ==
    Returned /\ call.fn = "extract_all_players" =>
        /\ "return" \in DOMAIN ret[1]
        /\ Len(ret[1].return) = 5
        /\ \A i \in 1..5 :
               /\ ret[1].return[i].position = i
               /\ ret[1].return[i].result = ret[1].return[1].result
               /\ ret[1].return[i].my_team_score
                      = ret[1].return[1].my_team_score
               /\ ret[1].return[i].adversary_team_score
                      = ret[1].return[1].adversary_team_score
               /\ ret[1].return[i].duration = ret[1].return[1].duration

-----------------------------------------------------------------------------
(* Specification of _parse_kda_all_combinations.                           *)

MaxKdaLen == 6

KdaDigits == {"0", "1", "2", "5", "9"}

KdaStrings == SeqsUpTo(KdaDigits, MaxKdaLen)

InitKda ==
    /\ call \in [fn : {"_parse_kda_all_combinations"}, kda_str : KdaStrings]
    /\ ret = Pending
    /\ ConfigInit

ParseKdaAllCombinations ==
    /\ call.fn = "_parse_kda_all_combinations"
    /\ ret = Pending
    /\ ret' = <<_parse_kda_all_combinations(call.kda_str)>>
    /\ UNCHANGED <<call, config>>

SpecKda == InitKda /\ [][ParseKdaAllCombinations]_vars

(* C24                                                                     *)

\* The cuts <<kLen, dLen>> of a string of the given length into three pieces
\* of 1 to 3 characters each.
piece_cuts(length) ==
    {c \in (1..3) \X (1..3) : length - c[1] - c[2] \in 1..3}

\* <<K, D, A>> of the cut c of kda_str
cut_values(kda_str, c) ==
    <<int(SubSeq(kda_str, 1, c[1])),
      int(SubSeq(kda_str, c[1] + 1, c[1] + c[2])),
      int(SubSeq(kda_str, c[1] + c[2] + 1, Len(kda_str)))>>

range_valid(kda_str, c) ==
    LET v == cut_values(kda_str, c)
    IN  v[1] \in 0..50 /\ v[2] \in 0..30 /\ v[3] \in 0..50

valid_cuts(kda_str) ==
    {c \in piece_cuts(Len(kda_str)) : range_valid(kda_str, c)}

\* C24: _parse_kda_all_combinations returns a combination whenever some cut
\* of kda_str into three pieces of 1 to 3 characters has 0<=K<=50, 0<=D<=30
\* and 0<=A<=50, and None only when no such cut passes the range filter.
C24_AllCutsConsidered ==
    Returned /\ call.fn = "_parse_kda_all_combinations" =>
        (ret[1] = None <=> valid_cuts(call.kda_str) = {})

(* C25                                                                     *)

\* The score of the cut c of kda_str, term by term.
cut_score(kda_str, c) ==
    LET v    == cut_values(kda_str, c)
        K    == v[1]
        D    == v[2]
        A    == v[3]
        kLen == c[1]
        dLen == c[2]
        aLen == Len(kda_str) - c[1] - c[2]
        both == K > 0 /\ A > 0
    IN  (IF D < K + A THEN 10 ELSE 0)
        + (IF both /\ max(K, A) < 10 * min(K, A) THEN 5 ELSE 0)
        + (IF both /\ max(K, A) < 5 * min(K, A) THEN 3 ELSE 0)
        + max(0, 5 - 2 * (abs(kLen - dLen) + abs(dLen - aLen)))
        + (IF Len(kda_str) = 6 /\ <<kLen, dLen, aLen>> = <<2, 2, 2>>
           THEN 5 ELSE 0)
        + (IF Len(kda_str) = 5 /\ <<kLen, dLen, aLen>> = <<2, 2, 1>>
           THEN 5 ELSE 0)
        - (IF dLen = 1 /\ D <= 1 /\ (K >= 10 \/ A >= 10) THEN 5 ELSE 0)
        + (IF 5 <= D /\ D <= 15 THEN 3 ELSE 0)

\* The range-valid cuts of kda_str with the highest score.
best_cuts(kda_str) ==
    {c \in valid_cuts(kda_str) :
        \A o \in valid_cuts(kda_str) :
            cut_score(kda_str, o) <= cut_score(kda_str, c)}

\* C25: the combination _parse_kda_all_combinations returns is that of a
\* range-valid cut whose score is the maximum over the range-valid cuts,
\* the score being the sum of the listed terms.
C25_MaximumScore ==
    Returned /\ call.fn = "_parse_kda_all_combinations" /\ ret[1] # None =>
        \E c \in best_cuts(call.kda_str) :
            ret[1] = cut_values(call.kda_str, c)

(* C26                                                                     *)

\* c comes before o in the enumeration: kLen ascending, then dLen ascending.
enumerated_before(c, o) ==
    c[1] < o[1] \/ (c[1] = o[1] /\ c[2] < o[2])

\* C26: when several range-valid cuts share the highest score,
\* _parse_kda_all_combinations returns the one found first in enumeration
\* order.
C26_FirstFoundWinsTies ==
    Returned /\ call.fn = "_parse_kda_all_combinations" /\ ret[1] # None =>
        \E c \in best_cuts(call.kda_str) :
            /\ \A o \in best_cuts(call.kda_str) \ {c} : enumerated_before(c, o)
            /\ ret[1] = cut_values(call.kda_str, c)

-----------------------------------------------------------------------------
(* C27                                                                     *)

\* <<K, D, A, G>> of the tokens n with the decimal string of n[1] split at
\* position p.
split_at_position(n, p) ==
    <<int(SubSeq(str(n[1]), 1, p)),
      int(SubSeq(str(n[1]), p + 1, Len(str(n[1])))), n[2], n[3]>>

\* The split at p leaves two non-empty parts and passes the range test.
split_qualifies(n, p) ==
    /\ p < Len(str(n[1]))
    /\ split_at_position(n, p)[1] \in 0..50
    /\ split_at_position(n, p)[2] \in 0..30
    /\ n[2] \in 0..50
    /\ n[3] >= 1000

\* Strategies 1 to 4 produced no result for the call.
no_earlier_result ==
    /\ Len(findall_digits(call.text1)) < 4
    /\ Len(findall_digits(call.text2)) < 4
    /\ Len(word_numbers_of(call.words)) < 4
    /\ LET all_digits == filter_isdigit(IF Len(call.text1) > 0
                                         THEN call.text1 ELSE call.text2)
       IN  Len(all_digits) >= 7 =>
               _parse_concatenated_stats_smart(all_digits) = Zero

\* C27: with exactly three numeric tokens [n0, n1, n2] and no result from an
\* earlier strategy, extract_player_stats returns the split of n0 at
\* position 1 if it qualifies, else the split at position 2 if it
\* qualifies, else (0,0,0,0).
C27_ThreeTokenRepair ==
    Returned /\ call.fn = "extract_player_stats"
             /\ Len(word_numbers_of(call.words)) = 3 /\ no_earlier_result =>
        LET n == word_numbers_of(call.words)
        IN  ret[1] = IF split_qualifies(n, 1) THEN split_at_position(n, 1)
                     ELSE IF split_qualifies(n, 2) THEN split_at_position(n, 2)
                     ELSE Zero

-----------------------------------------------------------------------------
(* C30                                                                     *)

\* The cleaned, alias-mapped nickname of row i (0-based) of the call.
row_nickname(i) ==
    extract_player_nickname(call.nickname_mappings, call.texts[i + 1])

\* C30: find_player_by_nickname returns index i for a non-empty target only
\* if the cleaned nickname of row i is non-empty; a target absent from all
\* rows gives None even when some rows produced no text.
C30_EmptyRowNeverMatches ==
    Returned /\ call.fn = "find_player_by_nickname"
             /\ strip(call.target_nickname) # <<>> /\ ret[1] # None =>
        row_nickname(ret[1][1]) # <<>>

-----------------------------------------------------------------------------
(* extract_game_data, and an extractor that serves one call after another.  *)

\* <<outcome, profiles, active_profile_name>>; the value returned is None
\* or <<GameData>>.
extract_game_data(profs, active, nickname_mappings, image, player_nickname) ==
    CHOOSE outcome \in
        {IF "raise" \in DOMAIN selected[1] THEN selected
         ELSE LET profile == selected[2][index_of(selected[2], selected[3])]
                  player_index ==
                      find_player_by_nickname(
                          nickname_mappings,
                          [i \in 1..Len(profile.players) |->
                              image.rows[profile.players[i]].nickname],
                          player_nickname)
              IN  IF player_index = None
                  THEN <<Return(None), selected[2], selected[3]>>
                  ELSE <<CHOOSE game_data \in
                             {Return(<<[nickname |-> player_stats.return.nickname,
                                        kills    |-> player_stats.return.kills,
                                        deaths   |-> player_stats.return.deaths,
                                        assists  |-> player_stats.return.assists,
                                        gold     |-> player_stats.return.gold,
                                        medal    |-> player_stats.return.medal,
                                        ratio    |-> player_stats.return.ratio,
                                        result   |-> match_info.result,
                                        my_team_score |->
                                            match_info.my_team_score,
                                        adversary_team_score |->
                                            match_info.adversary_team_score,
                                        duration |-> match_info.duration]>>) :
                                 player_stats \in
                                     {extract_player_data(
                                          nickname_mappings, profile,
                                          image.rows, player_index[1])}} : TRUE,
                         selected[2], selected[3]>> :
             selected \in {auto_select_profile(profs, active, image.width,
                                               image.height)},
             match_info \in {extract_match_info(image.match)}} : TRUE

\* The alias table the extractor was constructed with.
SessionMappings == {<<TextMTFDash, TextMTF7>>}

SessionRows ==
    {<<FaintRow, FullRow, FullRow, BlankRow, FullRow>>,
     <<FaintRow, FaintRow, FaintRow, FaintRow, FaintRow>>}

SessionImages ==
    {image \in Images :
        /\ <<image.width, image.height>> \in ScreenshotSizes
        /\ image.match.result = KwVICTORY
        /\ image.rows \in SessionRows}

SessionNicknames == {TextMTF7, <<"Z", "E", "D", " ", "X">>}

ExtractGameData ==
    \E image \in SessionImages, player_nickname \in SessionNicknames :
        \E r \in {extract_game_data(profiles, active_profile_name,
                                    SessionMappings, image, player_nickname)} :
            /\ call' = [fn |-> "extract_game_data", image |-> image,
                        player_nickname |-> player_nickname]
            /\ ret' = <<r[1]>>
            /\ profiles' = r[2]
            /\ active_profile_name' = r[3]

SessionExtractAllPlayers ==
    \E image \in SessionImages :
        \E r \in {extract_all_players(profiles, active_profile_name,
                                      SessionMappings, image)} :
            /\ call' = [fn |-> "extract_all_players",
                        nickname_mappings |-> SessionMappings,
                        image |-> image]
            /\ ret' = <<r[1]>>
            /\ profiles' = r[2]
            /\ active_profile_name' = r[3]

\* The profiles the application registers besides the default one.
SessionProfiles ==
    {q \in InputProfiles :
        \/ q.name = "hd" /\ q.reference_height = 1200 /\ Len(q.players) = 5
        \/ q.name = "tablet" /\ (q.reference_height = 0 \/ Len(q.players) = 4)}

SessionAddProfile ==
    \E profile \in SessionProfiles :
        \E r \in {add_profile(profiles, active_profile_name, profile)} :
            /\ call' = [fn |-> "add_profile", profile |-> profile]
            /\ ret' = <<r[1]>>
            /\ profiles' = r[2]
            /\ active_profile_name' = r[3]

NextSession ==
    \/ SessionAddProfile
    \/ SetActiveProfile
    \/ ExtractGameData
    \/ SessionExtractAllPlayers

SpecSession == InitConfig /\ [][NextSession]_vars

(* C21                                                                     *)

ExtractCalls == {"extract_game_data", "extract_all_players"}

\* What the call of the state gives on the registry of the state when the
\* profile named active is the active one before it.
outcome_from(active) ==
    IF call.fn = "extract_game_data"
    THEN extract_game_data(profiles, active, SessionMappings, call.image,
                           call.player_nickname)
    ELSE extract_all_players(profiles, active, SessionMappings, call.image)

\* The outcome, and the profile used when the call returns, are those of
\* the same call made with any other registered profile active, the one
\* the call itself left active included.
IndependentOfActive ==
    Returned /\ call.fn \in ExtractCalls =>
        \A active \in keys(profiles) :
            \E r \in {outcome_from(active)} :
                /\ r[1] = ret[1]
                /\ "return" \in DOMAIN ret[1] => r[3] = active_profile_name

\* An extract call leaves the registry as it found it.
ExtractKeepsRegistry == call'.fn \in ExtractCalls => profiles' = profiles

\* C21: for the same image and OCR texts extract_game_data and
\* extract_all_players return the same result and use the same profile
\* whichever profile was active before the call and however many extract
\* calls preceded it, and a repeated call gives the same result.
C21_CallsIndependent ==
    []IndependentOfActive /\ [][ExtractKeepsRegistry]_vars

\* An extract call returned with the profile hd selected, two calls on, at
\* least, after the profile was registered.
C21_Witness ==
    /\ Returns
    /\ call.fn = "extract_game_data"
    /\ ret[1].return # None
    /\ Len(profiles) = 3
    /\ active_profile_name = "hd"

(* C22                                                                     *)

\* An extract call that follows a successful set_active_profile(name) and
\* returns has decoded with the profile of that name.
ExplicitProfileUsed ==
    /\ call.fn = "set_active_profile"
    /\ Returns
    /\ call'.fn \in ExtractCalls
    /\ "return" \in DOMAIN ret'[1]
    => active_profile_name' = call.profile_name

\* C22: when a profile is chosen with set_active_profile before the
\* extraction starts, the profile active during extract_game_data or
\* extract_all_players is the one that was named.
C22_ExplicitProfileUsed == [][ExplicitProfileUsed]_vars

-----------------------------------------------------------------------------
(* Two threads that call the extract methods of one extractor.  call[t] is *)
(* the frame of thread t: its arguments, the step it is at (pc), the       *)
(* profile auto_select_profile returned to it (selected) and, for each     *)
(* read of self.profile it has made, the profile it got (used).  ret[t] is *)
(* Pending until the call of thread t returns.  A step is one read or one  *)
(* write of config.active_profile_name with the decoding that follows it.  *)

Threads == {1, 2}

\* The registry: the default profile and a 1600x1200 profile of five rows.
SharedProfiles ==
    add_profile(<<DEFAULT_PROFILE>>, DEFAULT_PROFILE.name,
                CHOOSE q \in SessionProfiles : q.name = "hd")[2]

Frames ==
    [fn : ExtractCalls, size : ScreenshotSizes, found : BOOLEAN,
     pc : {"select"}, idx : {0}, selected : {"None"}, used : {<<>>}]

InitThreads ==
    /\ profiles = SharedProfiles
    /\ active_profile_name = DEFAULT_PROFILE.name
    /\ call \in [Threads -> Frames]
    /\ ret = [t \in Threads |-> Pending]

\* self.config.auto_select_profile(width, height)
ThreadSelect(t) ==
    /\ call[t].pc = "select"
    /\ \E r \in {auto_select_profile(profiles, active_profile_name,
                                     call[t].size[1], call[t].size[2])} :
           /\ call' = [call EXCEPT ![t].selected = r[1].return,
                                   ![t].pc = IF call[t].fn = "extract_game_data"
                                             THEN "find" ELSE "match"]
           /\ profiles' = r[2]
           /\ active_profile_name' = r[3]
    /\ UNCHANGED ret

\* find_player_by_nickname: enumerate(self.profile.players) reads the
\* profile once; the call returns None when no row matches.
ThreadFind(t) ==
    /\ call[t].pc = "find"
    /\ call' = [call EXCEPT ![t].used = Append(@, active_profile_name),
                            ![t].pc = IF call[t].found THEN "match" ELSE "done"]
    /\ ret' = [ret EXCEPT ![t] = IF call[t].found THEN Pending
                                 ELSE <<Return(call'[t].used)>>]
    /\ UNCHANGED config

\* extract_match_info: profile = self.profile, then the four regions.
ThreadMatch(t) ==
    /\ call[t].pc = "match"
    /\ call' = [call EXCEPT ![t].used = Append(@, active_profile_name),
                            ![t].pc = "row"]
    /\ UNCHANGED <<ret, config>>

\* extract_player_data: player_config = self.profile.players[player_index];
\* the last row of the call returns.
ThreadRow(t) ==
    /\ call[t].pc = "row"
    /\ LET last == call[t].fn = "extract_game_data" \/ call[t].idx = 4
       IN  /\ call' = [call EXCEPT ![t].used = Append(@, active_profile_name),
                                   ![t].idx = IF last THEN @ ELSE @ + 1,
                                   ![t].pc = IF last THEN "done" ELSE "row"]
           /\ ret' = [ret EXCEPT ![t] = IF last THEN <<Return(call'[t].used)>>
                                        ELSE Pending]
    /\ UNCHANGED config

NextThreads ==
    \E t \in Threads :
        \/ ThreadSelect(t)
        \/ ThreadFind(t)
        \/ ThreadMatch(t)
        \/ ThreadRow(t)

SpecThreads == InitThreads /\ [][NextThreads]_vars

(* C28                                                                     *)

\* C28: when two extract calls on the same extractor interleave, each call
\* decodes the match-info fields and every player row with one and the same
\* profile, the one auto-selected for its own image.
C28_OneProfilePerCall ==
    \A t \in Threads :
        \A i \in 1..Len(call[t].used) : call[t].used[i] = call[t].selected


-----------------------------------------------------------------------------
(* DataParser (parser/data_parser.py), TextExtractor.extract_player_stats  *)
(* (ocr/text_extractor.py) and Pipeline.process_single_image (pipeline.py).*)
(* A raw record is a function from some of the field names to texts; an    *)
(* Optional[int] is None or <<int>>; gold and damage are doubles.          *)

KdaSeparators == {"/", "-"}

Letters ==
    {"a", "b", "c", "d", "e", "f", "g", "h", "i", "j", "k", "l", "m", "n",
     "o", "p", "q", "r", "s", "t", "u", "v", "w", "x", "y", "z",
     "A", "B", "C", "D", "E", "F", "G", "H", "I", "J", "K", "L", "M", "N",
     "O", "P", "Q", "R", "S", "T", "U", "V", "W", "X", "Y", "Z"}

\* The characters that \w matches.
WordChars == Letters \cup DigitChars \cup {"_"}

\* The length of the longest run of characters of the set chars that
\* starts at position i: what a greedy \d+, \d* or \s* takes there.
RECURSIVE run(_, _, _)
run(text, i, chars) ==
    IF i <= Len(text) /\ text[i] \in chars THEN 1 + run(text, i + 1, chars)
    ELSE 0

\* text[i:].startswith(word)
starts_at(text, i, word) ==
    /\ i + Len(word) - 1 <= Len(text)
    /\ \A j \in 1..Len(word) : text[i + j - 1] = word[j]

\* re.search: the match at the leftmost position that has one, for a
\* pattern whose match at position i is match_at[i].
RECURSIVE search_from(_, _)
search_from(match_at, i) ==
    IF i > Len(match_at) THEN None
    ELSE IF match_at[i] # None THEN match_at[i]
    ELSE search_from(match_at, i + 1)

\* The groups of (\d+)[/-](\d+)[/-](\d+) matched at position i, or None.
\* Each \d+ is followed by a character that is no digit, so that giving
\* back digits never helps: the runs are the longest ones.
match_kda_at(text, i) ==
    CHOOSE out \in
        {IF /\ k > 0 /\ i + k <= Len(text) /\ text[i + k] \in KdaSeparators
            /\ d > 0 /\ i + k + 1 + d <= Len(text)
            /\ text[i + k + 1 + d] \in KdaSeparators
            /\ run(text, i + k + d + 2, DigitChars) > 0
         THEN <<SubSeq(text, i, i + k - 1),
                SubSeq(text, i + k + 1, i + k + d),
                SubSeq(text, i + k + d + 2,
                       i + k + d + 1 + run(text, i + k + d + 2, DigitChars))>>
         ELSE None :
            k \in {run(text, i, DigitChars)},
            d \in {run(text, i + run(text, i, DigitChars) + 1, DigitChars)}} :
        TRUE

search_kda(text) ==
    search_from([i \in 1..Len(text) |-> match_kda_at(text, i)], 1)

parse_kda(text) ==
    LET match == search_kda(text)
    IN  IF match # None
        THEN [kills |-> int(match[1]), deaths |-> int(match[2]),
              assists |-> int(match[3])]
        ELSE [kills |-> 0, deaths |-> 0, assists |-> 0]

\* The groups of (\d+\.?\d*)\s*([kK])? matched at position i, or None: the
\* number, and whether a k follows it.
match_amount_at(text, i) ==
    CHOOSE out \in
        {IF n = 0 THEN None
         ELSE <<SubSeq(text, i, i + n + dot + run(text, i + n + dot, DigitChars) - 1),
                LET j == i + n + dot + run(text, i + n + dot, DigitChars)
                    k == j + run(text, j, Whitespace)
                IN  k <= Len(text) /\ text[k] \in {"k", "K"}>> :
            n \in {run(text, i, DigitChars)},
            dot \in {IF /\ i + run(text, i, DigitChars) <= Len(text)
                        /\ text[i + run(text, i, DigitChars)] = "."
                     THEN 1 ELSE 0}} :
        TRUE

\* float(text) for digits with at most one dot among them.
float(text) ==
    LET dot == CHOOSE i \in 1..(Len(text) + 1) :
                   i = Len(text) + 1 \/ text[i] = "."
        decimals == SubSeq(text, dot + 1, Len(text))
    IN  dbl_div(int(SubSeq(text, 1, dot - 1) \o decimals),
                pow10(Len(decimals)))

parse_gold(text) ==
    LET match ==
            search_from([i \in 1..Len(text) |-> match_amount_at(text, i)], 1)
    IN  IF match # None
        THEN IF match[2] THEN dbl_mul_int(float(match[1]), 1000)
             ELSE float(match[1])
        ELSE DZero

parse_damage(text) == parse_gold(text)

\* " ".join(name.split())
join_split(name) == collapse_spaces(strip(name))

parse_player_name(text) ==
    join_split(SelectSeq(text,
        LAMBDA c : c \in WordChars \cup Whitespace \cup {"-"}))

parse_hero_name(text) ==
    join_split(SelectSeq(text, LAMBDA c : c \in WordChars \cup Whitespace))

parse_game_result(text) ==
    LET text_lower == lower(text)
    IN  IF \/ contains(text_lower, lower(KwVICTORY))
           \/ contains(text_lower, lower(KwWIN))
        THEN "Victory"
        ELSE IF \/ contains(text_lower, lower(KwDEFEAT))
                \/ contains(text_lower, lower(KwLOSE))
                \/ contains(text_lower, lower(KwLOSS))
        THEN "Defeat"
        ELSE "Unknown"

\* The groups of (\d+):(\d+) matched at position i, or None.
match_colon_at(text, i) ==
    CHOOSE out \in
        {IF /\ m > 0 /\ i + m <= Len(text) /\ text[i + m] = ":"
            /\ run(text, i + m + 1, DigitChars) > 0
         THEN <<SubSeq(text, i, i + m - 1),
                SubSeq(text, i + m + 1,
                       i + m + run(text, i + m + 1, DigitChars))>>
         ELSE None : m \in {run(text, i, DigitChars)}} :
        TRUE

\* The groups of (\d+)\s*m(?:in)?\s*(\d+)\s*s(?:ec)? matched at position i,
\* or None.  After the m, "in" is taken when it is there: without it the
\* i would have to be whitespace or a digit.
match_min_sec_at(text, i) ==
    CHOOSE out \in
        {IF /\ m > 0 /\ starts_at(text, at_m, <<"m">>)
            /\ run(text, at_s, DigitChars) > 0
            /\ starts_at(text, at_s + run(text, at_s, DigitChars)
                               + run(text, at_s + run(text, at_s, DigitChars),
                                     Whitespace), <<"s">>)
         THEN <<SubSeq(text, i, i + m - 1),
                SubSeq(text, at_s, at_s + run(text, at_s, DigitChars) - 1)>>
         ELSE None :
            m \in {run(text, i, DigitChars)},
            at_m \in {i + run(text, i, DigitChars)
                      + run(text, i + run(text, i, DigitChars), Whitespace)},
            at_s \in {LET a == i + run(text, i, DigitChars)
                              + run(text, i + run(text, i, DigitChars),
                                    Whitespace) + 1
                          b == IF starts_at(text, a, <<"i", "n">>)
                               THEN a + 2 ELSE a
                      IN  b + run(text, b, Whitespace)}} :
        TRUE

\* parse_game_duration with the seconds read as hundredths of a minute.
parse_game_duration_decimal(text) ==
    LET match1 ==
            search_from([i \in 1..Len(text) |-> match_colon_at(text, i)], 1)
        match2 ==
            search_from([i \in 1..Len(text) |-> match_min_sec_at(text, i)], 1)
    IN  IF match1 # None THEN <<int(match1[1]) * 100 + int(match1[2])>>
        ELSE IF match2 # None THEN <<int(match2[1]) * 100 + int(match2[2])>>
        ELSE None

parse_game_duration(text) ==
    LET match1 ==
            search_from([i \in 1..Len(text) |-> match_colon_at(text, i)], 1)
        match2 ==
            search_from([i \in 1..Len(text) |-> match_min_sec_at(text, i)], 1)
    IN  IF match1 # None THEN <<int(match1[1]) * 60 + int(match1[2])>>
        ELSE IF match2 # None THEN <<int(match2[1]) * 60 + int(match2[2])>>
        ELSE None

\* extracted_data.get(key, "")
get(extracted_data, key) ==
    IF key \in DOMAIN extracted_data THEN extracted_data[key] ELSE <<>>

structure_player_data(extracted_data) ==
    CHOOSE structured \in
        {[player_name |-> parse_player_name(get(extracted_data, "player_name")),
          hero_name   |-> parse_hero_name(get(extracted_data, "hero_name")),
          game_result |-> parse_game_result(get(extracted_data, "game_result")),
          duration    |-> parse_game_duration(get(extracted_data, "duration")),
          kills       |-> kda.kills,
          deaths      |-> kda.deaths,
          assists     |-> kda.assists,
          gold        |-> IF "gold" \in DOMAIN extracted_data
                          THEN parse_gold(extracted_data["gold"]) ELSE DZero,
          damage      |-> IF "damage" \in DOMAIN extracted_data
                          THEN parse_damage(extracted_data["damage"])
                          ELSE DZero] :
            kda \in {IF "kda" \in DOMAIN extracted_data
                     THEN parse_kda(extracted_data["kda"])
                     ELSE [kills |-> 0, deaths |-> 0, assists |-> 0]}} :
        TRUE

\* The group of (\d+\.?\d*)[kK]?\s*(?:gold|Gold) matched at position i, or
\* None; words holds the two spellings of the unit.
match_labelled_at(text, i, words) ==
    CHOOSE out \in
        {IF n > 0 /\ \E w \in words : starts_at(text, unit, w)
         THEN <<SubSeq(text, i, number_end - 1)>>
         ELSE None :
            n \in {run(text, i, DigitChars)},
            number_end \in
                {LET a == i + run(text, i, DigitChars)
                     b == IF a <= Len(text) /\ text[a] = "." THEN a + 1 ELSE a
                 IN  b + run(text, b, DigitChars)},
            unit \in
                {LET a == i + run(text, i, DigitChars)
                     b == IF a <= Len(text) /\ text[a] = "." THEN a + 1 ELSE a
                     c == b + run(text, b, DigitChars)
                     e == IF c <= Len(text) /\ text[c] \in {"k", "K"}
                          THEN c + 1 ELSE c
                 IN  e + run(text, e, Whitespace)}} :
        TRUE

GoldWords == {<<"g", "o", "l", "d">>, <<"G", "o", "l", "d">>}

DamageWords ==
    {<<"d", "a", "m", "a", "g", "e">>, <<"D", "a", "m", "a", "g", "e">>}

\* TextExtractor.extract_player_stats on the text that extract_text reads
\* from the image.
text_extractor_player_stats(text) ==
    LET kda_match == search_kda(text)
        gold_match ==
            search_from([i \in 1..Len(text) |->
                            match_labelled_at(text, i, GoldWords)], 1)
        damage_match ==
            search_from([i \in 1..Len(text) |->
                            match_labelled_at(text, i, DamageWords)], 1)
    IN  [kills   |-> IF kda_match # None THEN kda_match[1] ELSE <<>>,
         deaths  |-> IF kda_match # None THEN kda_match[2] ELSE <<>>,
         assists |-> IF kda_match # None THEN kda_match[3] ELSE <<>>,
         gold    |-> IF gold_match # None THEN gold_match[1] ELSE <<>>,
         damage  |-> IF damage_match # None THEN damage_match[1] ELSE <<>>]

\* TextExtractor.extract_text: the stripped text that Tesseract reads, or
\* the empty text when Tesseract fails.
extract_text(image) ==
    IF ~image.tesseract_ok THEN <<>> ELSE strip(image.ocr)

\* An image file is [name, loadable, tesseract_ok, ocr]: its file name,
\* whether OpenCV can read it, whether Tesseract runs on it, and what
\* Tesseract reads from the preprocessed image.
process_single_image(image) ==
    IF ~image.loadable THEN Raise("FileNotFoundError")
    ELSE LET raw_text == extract_text(image)
             player_stats == text_extractor_player_stats(extract_text(image))
             structured_data == structure_player_data(player_stats)
         IN  Return(structured_data
                    @@ [source_image |-> image.name, raw_text |-> raw_text])


MaxKdaFieldLen == 6

MaxDurationFieldLen == 4

KdaFieldChars == {"1", "0", "/", "-"}

DurationFieldChars == {"2", "5", ":", "m", "s", " "}

KdaFields == SeqsUpTo(KdaFieldChars, MaxKdaFieldLen)

DurationFields == SeqsUpTo(DurationFieldChars, MaxDurationFieldLen)

NameOnlyRecord == [player_name |-> <<"Z", "e", "d">>]

\* The record of test_parsing.
TestRecord ==
    [player_name |-> <<"T", "e", "s", "t", "P", "l", "a", "y", "e", "r">>,
     hero_name   |-> <<"L", "a", "y", "l", "a">>,
     kda         |-> <<"1", "0", "/", "2", "/", "1", "5">>,
     gold        |-> <<"1", "6", ".", "5", "k">>,
     damage      |-> <<"8", "9", ".", "2", "k">>,
     game_result |-> <<"V", "i", "c", "t", "o", "r", "y">>,
     duration    |-> <<"1", "8", ":", "4", "5">>]

RawRecords ==
    {NameOnlyRecord, TestRecord}
    \cup {("kda" :> k) @@ NameOnlyRecord : k \in KdaFields}
    \cup {("duration" :> d) @@ NameOnlyRecord : d \in DurationFields}

OcrLine ==
    <<"1", "0", "/", "2", "/", "1", "5", " ", "1", "6", ".", "5", "k", " ",
      "g", "o", "l", "d", "\n", "8", "9", ".", "2", "k", " ",
      "d", "a", "m", "a", "g", "e", "\n">>

ImageName == <<"a", ".", "p", "n", "g">>

ImageFiles ==
    {[name |-> ImageName, loadable |-> TRUE, tesseract_ok |-> TRUE,
      ocr |-> text] : text \in KdaFields \cup {OcrLine}}
    \cup {[name |-> ImageName, loadable |-> l, tesseract_ok |-> FALSE,
           ocr |-> <<>>] : l \in BOOLEAN}

InitPipeline ==
    /\ call \in [fn : {"structure_player_data"}, extracted_data : RawRecords]
                \cup [fn : {"process_single_image"}, image : ImageFiles]
    /\ ret = Pending
    /\ ConfigInit

StructurePlayerData ==
    /\ call.fn = "structure_player_data"
    /\ ret = Pending
    /\ ret' = <<Return(structure_player_data(call.extracted_data))>>
    /\ UNCHANGED <<call, config>>

ProcessSingleImage ==
    /\ call.fn = "process_single_image"
    /\ ret = Pending
    /\ ret' = <<process_single_image(call.image)>>
    /\ UNCHANGED <<call, config>>

NextPipeline == StructurePlayerData \/ ProcessSingleImage

SpecPipeline == InitPipeline /\ [][NextPipeline]_vars


(* C23                                                                     *)

all_digits(s) == Len(s) > 0 /\ \A i \in 1..Len(s) : s[i] \in DigitChars

all_spaces(s) == \A i \in 1..Len(s) : s[i] \in Whitespace

\* The field is k, a separator at p, d, a separator at q, a: three numbers
\* and two separators, each "/" or "-", and nothing else.
kda_form(field, p, q) ==
    /\ p < q /\ q < Len(field)
    /\ field[p] \in KdaSeparators /\ field[q] \in KdaSeparators
    /\ all_digits(SubSeq(field, 1, p - 1))
    /\ all_digits(SubSeq(field, p + 1, q - 1))
    /\ all_digits(SubSeq(field, q + 1, Len(field)))

\* Some part of the field is of that form: two separators with only
\* digits, and at least one, between them, a digit before the first and a
\* digit after the second.
kda_pattern_present(field) ==
    \E p, q \in 1..Len(field) :
        /\ p < q
        /\ field[p] \in KdaSeparators /\ field[q] \in KdaSeparators
        /\ all_digits(SubSeq(field, p + 1, q - 1))
        /\ 1 < p /\ field[p - 1] \in DigitChars
        /\ q < Len(field) /\ field[q + 1] \in DigitChars

\* The field is m, a colon at p, s.
duration_form(field, p) ==
    /\ field[p] = ":"
    /\ all_digits(SubSeq(field, 1, p - 1))
    /\ all_digits(SubSeq(field, p + 1, Len(field)))

colon_pattern_present(field) ==
    \E p \in 2..(Len(field) - 1) :
        /\ field[p] = ":"
        /\ field[p - 1] \in DigitChars /\ field[p + 1] \in DigitChars

\* Some part of the field reads "15m 30s", "15 min 30 sec" or alike: a
\* number, an m or min at u, a number from v to w, an s at x, with nothing
\* but spaces between them.
min_sec_pattern_present(field) ==
    \E t, u, v, w, x \in 1..Len(field) :
        /\ t < u /\ u < v /\ v <= w /\ w < x
        /\ field[t] \in DigitChars
        /\ all_spaces(SubSeq(field, t + 1, u - 1))
        /\ field[u] = "m"
        /\ \/ all_spaces(SubSeq(field, u + 1, v - 1))
           \/ /\ u + 2 < v
              /\ SubSeq(field, u + 1, u + 2) = <<"i", "n">>
              /\ all_spaces(SubSeq(field, u + 3, v - 1))
        /\ all_digits(SubSeq(field, v, w))
        /\ all_spaces(SubSeq(field, w + 1, x - 1))
        /\ field[x] = "s"

\* C23: structure_player_data maps a raw record field by field.  A "kda"
\* field that is k, a separator, d, a separator, a (each separator "/" or
\* "-") gives kills = k, deaths = d and assists = a; the three are 0 when
\* the record has no "kda" field or the field holds no such pattern.  A
\* "duration" field that is m, a colon, s gives duration = 60 * m + s; the
\* duration is None when the record has no "duration" field or the field
\* holds no duration pattern (neither m:s nor minutes and seconds marked m
\* and s).
C23_FieldByField ==
    (call.fn = "structure_player_data" /\ Returned) =>
        LET data == call.extracted_data
            out  == ret[1].return
        IN  /\ "kda" \in DOMAIN data =>
                \A p, q \in 1..Len(data.kda) :
                    kda_form(data.kda, p, q) =>
                        /\ out.kills = int(SubSeq(data.kda, 1, p - 1))
                        /\ out.deaths = int(SubSeq(data.kda, p + 1, q - 1))
                        /\ out.assists =
                               int(SubSeq(data.kda, q + 1, Len(data.kda)))
            /\ ("kda" \notin DOMAIN data \/ ~kda_pattern_present(data.kda)) =>
                   out.kills = 0 /\ out.deaths = 0 /\ out.assists = 0
            /\ "duration" \in DOMAIN data =>
                \A p \in 1..Len(data.duration) :
                    duration_form(data.duration, p) =>
                        out.duration =
                            <<60 * int(SubSeq(data.duration, 1, p - 1))
                              + int(SubSeq(data.duration, p + 1,
                                           Len(data.duration)))>>
            /\ (\/ "duration" \notin DOMAIN data
                \/ /\ ~colon_pattern_present(data.duration)
                   /\ ~min_sec_pattern_present(data.duration)) =>
                   out.duration = None

\* The record of test_parsing has been structured: "10/2/15" gave 10, 2 and
\* 15, and "18:45" gave 1125 seconds.
C23_Witness ==
    /\ call.fn = "structure_player_data" /\ Returned
    /\ call.extracted_data = TestRecord
    /\ kda_form(call.extracted_data.kda, 3, 5)
    /\ duration_form(call.extracted_data.duration, 3)
    /\ ret[1].return.kills = 10
    /\ ret[1].return.deaths = 2
    /\ ret[1].return.assists = 15
    /\ ret[1].return.duration = <<1125>>

(* C29                                                                     *)

\* C29: when the text that the OCR stage reads from the image holds a
\* pattern k/d/a, the record that process_single_image returns has the
\* kills, deaths and assists that extract_player_stats reports for it.
C29_KdaReachesRecord ==
    (/\ call.fn = "process_single_image" /\ Returns
     /\ kda_pattern_present(extract_text(call.image))) =>
        LET player_stats ==
                text_extractor_player_stats(extract_text(call.image))
        IN  /\ ret[1].return.kills = int(player_stats.kills)
            /\ ret[1].return.deaths = int(player_stats.deaths)
            /\ ret[1].return.assists = int(player_stats.assists)

=============================================================================
